---- MODULE Spec2Model ----
(***************************************************************************)
(* Model of the simulation engines of the fund analysis tool:             *)
(*   - fund_backtester/backtester.py  run_backtest (full-allocation,      *)
(*     fixed-amount and DCA mode) fed by fund_backtester/strategy.py,     *)
(*   - app.py  run_backtest (threshold loop with external top-up),        *)
(*   - fund_backtest.py  FundBacktester._simulate_threshold_strategy,     *)
(*   - the advisory classification of fund_monitor/core.py and app.py.    *)
(*   - the signal generators of fund_backtester/strategy.py (SignalSpec),  *)
(*   - the DCA date selection of app.py run_backtest (DateSpec),           *)
(*   - the calendar aligners data_manager.get_fund_history and             *)
(*     app.get_fund_data with their callers (AlignSpec),                   *)
(*   - calculate_max_drawdown and calculate_metrics (MetricSpec),          *)
(*   - the reference row of the advisory evaluator: core.get_reference_nav,*)
(*     the advice view of app.py and the backtest shift (AdviceSpec),      *)
(*   - the notification tracker of fund_monitor/strategy.py (NotifySpec),  *)
(*   - the daily decision report of monitor.py (MonitorSpec).              *)
(* One run is one behaviour: Init chooses the engine and its arguments,   *)
(* every step processes the next row of the price series, Finish is the   *)
(* code after the loop.  Money, shares and prices are exact rationals     *)
(* <<numerator, denominator>> in lowest terms (the code uses floats).     *)
(***************************************************************************)
EXTENDS Integers, Sequences, FiniteSets, TLC

\* ------------------------------------------------------------------ bounds
MaxLen == 4            \* rows of a backtester.run_backtest series
MaxRows == 5           \* rows of an app.py or fund_backtest.py series
MaxSeries == 4         \* rows of a series given to a signal generator
MaxDay == 93           \* last calendar day of a DCA series (2024-04-02)
MaxHolidays == 2       \* holidays inside a DCA series
MaxValues == 4         \* values of a series given to a performance metric
MaxAlDay == 5          \* calendar days seen by a calendar aligner (from Monday 2024-01-01)
MaxAdvDay == 10         \* calendar days seen by the advisory evaluator
MaxCalls == 4           \* calls of check_and_notify
MaxResets == 1          \* calls of reset_sent_notifications
MaxMonDay == 8          \* last calendar day the monitor runs on

\* ------------------------------------------------------- exact arithmetic
Abs(n) == IF n < 0 THEN -n ELSE n

RECURSIVE GCD(_, _)
GCD(a, b) == IF b = 0 THEN a ELSE GCD(b, a % b)

Norm(n, d) ==
    IF n = 0 THEN <<0, 1>>
    ELSE LET s == IF d < 0 THEN -1 ELSE 1
             g == GCD(Abs(n), Abs(d))
         IN  <<(s * n) \div g, (s * d) \div g>>

R(n) == <<n, 1>>
RAdd(a, b) == Norm(a[1] * b[2] + b[1] * a[2], a[2] * b[2])
RSub(a, b) == Norm(a[1] * b[2] - b[1] * a[2], a[2] * b[2])
RMul(a, b) == Norm(a[1] * b[1], a[2] * b[2])
RDiv(a, b) == Norm(a[1] * b[2], a[2] * b[1])
RLe(a, b) == a[1] * b[2] <= b[1] * a[2]
RLt(a, b) == a[1] * b[2] < b[1] * a[2]
RGe(a, b) == RLe(b, a)
RGt(a, b) == RLt(b, a)
RMin(a, b) == IF RLe(a, b) THEN a ELSE b

\* ------------------------------------------------------------ input sets
Prices == {1, 2}                        \* closing values (positive)
AppPrices == {1, 2, 3}                  \* closing values of the app.py series
CommissionRates == {R(0), <<1, 4>>, R(1)}
Capitals == {0, 10}                     \* initial_capital / initial_amount
TradeAmounts == {4}                     \* trade_amount, DCA amount, threshold_buy_amount
BuyThresholds == {-50, 0}               \* percent; the sliders of fund_backtester/app.py allow 0
SellThresholds == {0, 50}               \* percent
AppBuyThresholds == {-50, -30}          \* percent; app.py accepts -50.0 .. -0.1
AppSellThresholds == {50}               \* percent; app.py accepts 0.1 .. 50.0
Lookbacks == {1, 2}
Intervals == {1, 2, 3}
ShortWindows == {1}
LongWindows == {2, 3}
None == <<>>                            \* Python None; a present optional value x is <<x>>
Some(x) == <<x>>
NaN == <<>>                             \* float NaN
Inf == <<1, 0>>                         \* float infinity

VARIABLES
    engine,                    \* "backtester" | "app" | "fund_backtest"
    cfg,                       \* the arguments of the run
    pc,                        \* "loop" while rows are processed, "done" after the return
    close,                     \* the price column (close / 单位净值 / nav), rows processed so far
    signal,                    \* backtester.py: data['signal'], rows processed so far
    portfolio,                 \* backtester.py: rows of the portfolio DataFrame
    trade_log_list,            \* backtester.py: trade log
    performance,               \* backtester.py: returned performance dict
    thr_cash,                  \* app.py run_backtest
    thr_shares,                \* app.py run_backtest
    total_thr_invested,        \* app.py run_backtest
    thr_portfolio_value_list,  \* app.py run_backtest
    thr_transactions,          \* app.py run_backtest
    results,                   \* app.py run_backtest: returned "threshold" dict
    data,                      \* fund_backtest.py: rows written by _simulate_threshold_strategy
    shares,                    \* fund_backtest.py: local of _simulate_threshold_strategy
    cash                       \* fund_backtest.py: local of _simulate_threshold_strategy

runVars == <<engine, cfg, pc, close>>
btVars == <<signal, portfolio, trade_log_list, performance>>
appVars == <<thr_cash, thr_shares, total_thr_invested, thr_portfolio_value_list,
             thr_transactions, results>>
fbVars == <<data, shares, cash>>
engVars == <<runVars, btVars, appVars, fbVars>>

VARIABLES
    sg_cfg,                    \* strategy.py: the generator called and its parameters
    sg_pc,                     \* "rows" while the two series are built, "done" after the calls
    sg_close,                  \* strategy.py: data['close'] of the first call
    sg_close2,                 \* strategy.py: data['close'] of the second call
    sg_signal,                 \* strategy.py: the 'signal' column returned by the first call
    sg_signal2                 \* strategy.py: the 'signal' column returned by the second call

VARIABLES
    dt_cfg,                    \* app.py run_backtest: dca_freq, dca_day, dca_amount
    dt_pc,                     \* "groups" inside the groupby loop, then "invest", "done"
    all_dates,                 \* get_dca_investment_dates: valid_data.index
    dt_group,                  \* get_dca_investment_dates: key of the next group
    investment_dates,          \* get_dca_investment_dates: the set being filled
    dca_investment_dates,      \* run_backtest: the sorted dates returned
    dca_investments,           \* run_backtest: the dates that carry a purchase
    total_dca_invested         \* run_backtest

VARIABLES
    al_impl,                   \* "data_manager" (get_fund_history) | "app" (get_fund_data)
    al_pc,                     \* "call", "returned", "done"
    fund_data_raw,             \* the observations returned by ak.fund_open_fund_info_em
    start_date,                \* requested range
    end_date,
    fund_data,                 \* the value returned by the aligner
    backtest_ran               \* the caller went on to signal generation / run_backtest

VARIABLES
    pm_pc,                     \* "rows" while the series is built, "done" after a metric call
    pm_series,                 \* the value series (app.py) / the nav column (fund_backtest.py)
    max_drawdown,              \* app.py: value returned by calculate_max_drawdown
    metrics                    \* fund_backtest.py: outcome of calculate_metrics

VARIABLES
    adv_pc,                    \* "core", "app", "backtest" (the call to make), then "done"
    adv_hist_data_raw,         \* ak.fund_open_fund_info_em: recorded date -> NAV
    adv_today,                 \* datetime.now().date()
    adv_lookback_period,       \* the lookback_period of the strategy
    adv_core_reference,        \* result of fund_monitor.core.get_reference_nav
    adv_app_reference,         \* reference row of the advice view of app.py
    adv_shift_reference        \* reference_nav / reference_date of today's row in run_backtest

VARIABLES
    nt_active,                 \* TRUE while the notification module is driven
    g_sent_notifications,      \* fund_monitor/strategy.py: fund_code -> "buy" | "sell" | ""
    nt_outbox,                 \* the calls of send_email_notification: [fund_code, type, epoch]
    nt_epoch,                  \* number of reset_sent_notifications calls so far
    nt_calls                   \* number of check_and_notify calls so far

VARIABLES
    mn_pc,                     \* monitor.py: "sleep" (scheduler waiting), "enter", "check", "crashed"
    mn_now,                    \* the clock: [day, slot], slot "before" | "window" (14:45-14:59) | "after"
    mn_trade_days,             \* the trade calendar that ak.tool_trade_date_hist_sina serves
    mn_pending,                \* number of monitor_job events in the scheduler queue
    mn_reports,                \* the runs of send_decision_report so far
    g_decision_report_sent_date,   \* monitor.py global; 0 stands for date.min
    g_trade_days_cache         \* monitor.py global: [date, days]

sgVars == <<sg_cfg, sg_pc, sg_close, sg_close2, sg_signal, sg_signal2>>
pmVars == <<pm_pc, pm_series, max_drawdown, metrics>>
alVars == <<al_impl, al_pc, fund_data_raw, start_date, end_date, fund_data, backtest_ran>>
dtVars == <<dt_cfg, dt_pc, all_dates, dt_group, investment_dates,
            dca_investment_dates, dca_investments, total_dca_invested>>
advVars == <<adv_pc, adv_hist_data_raw, adv_today, adv_lookback_period,
             adv_core_reference, adv_app_reference, adv_shift_reference>>
ntVars == <<nt_active, g_sent_notifications, nt_outbox, nt_epoch, nt_calls>>
mnVars == <<mn_pc, mn_now, mn_trade_days, mn_pending, mn_reports,
            g_decision_report_sent_date, g_trade_days_cache>>
lateVars == <<advVars, ntVars, mnVars>>
auxVars == <<sgVars, dtVars, alVars, pmVars, lateVars>>
sgRest == <<engVars, dtVars, alVars, pmVars, lateVars>>  \* what a signal generator leaves alone
dtRest == <<engVars, sgVars, alVars, pmVars, lateVars>>  \* what the DCA date selection leaves alone
alRest == <<engVars, sgVars, dtVars, pmVars, lateVars>>  \* what a calendar aligner leaves alone
pmRest == <<engVars, sgVars, dtVars, alVars, lateVars>>  \* what a performance metric leaves alone
advRest == <<engVars, sgVars, dtVars, alVars, pmVars, ntVars, mnVars>>  \* what the advisory evaluator leaves alone
ntRest == <<engVars, sgVars, dtVars, alVars, pmVars, advVars, mnVars>>  \* what the notifier leaves alone
mnRest == <<engVars, sgVars, dtVars, alVars, pmVars, advVars, ntVars>>  \* what the monitor leaves alone
vars == <<engVars, auxVars>>

Last(s) == s[Len(s)]

\* ------------------------------------------- fund_backtester/strategy.py
\* threshold_strategy: the signal of row i (1-based) of the price column cl
price_change_pct(cl, i, lookback_period) ==
    RSub(RDiv(R(cl[i]), R(cl[i - lookback_period])), R(1))

\* mutant: the buy column assignment is applied after the sell one
threshold_strategy_BuyLast(cl, i, lookback_period, buy_threshold, sell_threshold) ==
    LET notna == i - lookback_period >= 1
        pct == price_change_pct(cl, i, lookback_period)
    IN  IF notna /\ RLe(pct, RDiv(R(buy_threshold), R(100))) THEN 1
        ELSE IF notna /\ RGe(pct, RDiv(R(sell_threshold), R(100))) THEN -1 ELSE 0

threshold_strategy(cl, i, lookback_period, buy_threshold, sell_threshold) ==
    LET notna == i - lookback_period >= 1
        buy_threshold_ratio  == RDiv(R(buy_threshold), R(100))
        sell_threshold_ratio == RDiv(R(sell_threshold), R(100))
        buy_condition  == notna /\ RLe(price_change_pct(cl, i, lookback_period), buy_threshold_ratio)
        sell_condition == notna /\ RGe(price_change_pct(cl, i, lookback_period), sell_threshold_ratio)
    IN  IF sell_condition THEN -1 ELSE IF buy_condition THEN 1 ELSE 0

\* dca_strategy: the signal of row i (1-based); days_since_last_investment
\* starts at interval_days, is reset on an investment row and then grows by one
RECURSIVE days_since_last_investment(_, _)
days_since_last_investment(i, interval_days) ==
    IF i = 1 THEN interval_days
    ELSE LET before == days_since_last_investment(i - 1, interval_days)
         IN  (IF before >= interval_days THEN 0 ELSE before) + 1

\* mutant: the first investment waits for a full interval
dca_strategy_SkipFirst(i, interval_days, amount) ==
    IF i % interval_days = 0 THEN amount ELSE 0

dca_strategy(i, interval_days, amount) ==
    IF days_since_last_investment(i, interval_days) >= interval_days THEN amount ELSE 0

\* ---- the indicator generators; a float is a rational, NaN or Inf

RECURSIVE SumOf(_, _, _)
SumOf(f, a, b) == IF a > b THEN R(0) ELSE RAdd(f[b], SumOf(f, a, b - 1))

Ratios(cl) == [k \in 1..Len(cl) |-> R(cl[k])]

\* mutant: a centred window, which takes in the row after i
rolling_mean_Centered(col, i, window, min_periods) ==
    LET lo == IF i - window + 1 < 1 THEN 1 ELSE i - window + 1
        hi == IF i + 1 <= Len(col) THEN i + 1 ELSE i
    IN  IF i - lo + 1 < min_periods THEN NaN
        ELSE RDiv(SumOf(col, lo, hi), R(hi - lo + 1))

\* Series.rolling(window, min_periods).mean() at row i
rolling_mean(col, i, window, min_periods) ==
    LET lo == IF i - window + 1 < 1 THEN 1 ELSE i - window + 1
    IN  IF i - lo + 1 < min_periods THEN NaN
        ELSE RDiv(SumOf(col, lo, i), R(i - lo + 1))

\* Series.rolling(window).std() squared at row i (sample variance, ddof = 1)
rolling_var(col, i, window) ==
    LET mean == rolling_mean(col, i, window, window)
        sq == [k \in 1..Len(col) |->
                 IF mean = NaN THEN R(0)
                 ELSE RMul(RSub(col[k], mean), RSub(col[k], mean))]
    IN  IF mean = NaN \/ window < 2 THEN NaN
        ELSE RDiv(SumOf(sq, i - window + 1, i), R(window - 1))

Sgn(x) == IF x[1] > 0 THEN 1 ELSE IF x[1] < 0 THEN -1 ELSE 0

\* x > y * sqrt(v) for rationals x, y and v >= 0, decided on the squares
GtRoot(x, y, v) ==
    LET st == IF v[1] = 0 THEN 0 ELSE Sgn(y)
        x2 == RMul(x, x)
        t2 == RMul(RMul(y, y), v)
    IN  IF Sgn(x) > st THEN TRUE
        ELSE IF Sgn(x) < st THEN FALSE
        ELSE IF st = 0 THEN FALSE
        ELSE IF st > 0 THEN RGt(x2, t2) ELSE RLt(x2, t2)

\* the position loop shared by rsi, bollinger and macd: buy sets 1, else sell sets 0
RECURSIVE position_loop(_, _, _)
position_loop(buy_signals, sell_signals, i) ==
    IF i = 0 THEN 0
    ELSE IF buy_signals[i] THEN 1
    ELSE IF sell_signals[i] THEN 0
    ELSE position_loop(buy_signals, sell_signals, i - 1)

\* mutant: the signal is the position itself, repeated while it lasts
position_diff_Level(pos, i) == pos[i]

\* signals['position'].diff() with fillna(0)
position_diff(pos, i) == IF i = 1 THEN 0 ELSE pos[i] - pos[i - 1]

\* mutant: the position is compared from the first row on
ma_crossover_position_NoWarmUp(cl, short_window, long_window) ==
    LET col == Ratios(cl)
    IN  [k \in 1..Len(cl) |->
            IF RGt(rolling_mean(col, k, short_window, 1), rolling_mean(col, k, long_window, 1))
            THEN 1 ELSE 0]

\* 1. ma_crossover_strategy
ma_crossover_position(cl, short_window, long_window) ==
    LET col == Ratios(cl)
        position == [k \in 1..Len(cl) |->
            IF k > long_window
               /\ RGt(rolling_mean(col, k, short_window, 1), rolling_mean(col, k, long_window, 1))
            THEN 1 ELSE 0]
    IN  position

ma_crossover_strategy(cl, i, short_window, long_window) ==
    position_diff(ma_crossover_position(cl, short_window, long_window), i)

\* _calculate_rsi at row i
calculate_rsi(cl, i, period) ==
    LET delta == [k \in 1..Len(cl) |-> IF k = 1 THEN 0 ELSE cl[k] - cl[k - 1]]
        up   == [k \in 1..Len(cl) |-> R(IF delta[k] > 0 THEN delta[k] ELSE 0)]
        down == [k \in 1..Len(cl) |-> R(IF delta[k] < 0 THEN -delta[k] ELSE 0)]
        gain == rolling_mean(up, i, period, period)
        loss == rolling_mean(down, i, period, period)
        rs == IF gain = NaN \/ loss = NaN THEN NaN
              ELSE IF loss[1] = 0 THEN (IF gain[1] = 0 THEN NaN ELSE Inf)
              ELSE RDiv(gain, loss)
    IN  IF rs = NaN THEN NaN
        ELSE IF rs = Inf THEN R(100)
        ELSE RSub(R(100), RDiv(R(100), RAdd(R(1), rs)))

\* 2. rsi_strategy
rsi_position(cl, rsi_period, oversold_threshold, overbought_threshold) ==
    LET rsi == [k \in 1..Len(cl) |-> calculate_rsi(cl, k, rsi_period)]
        prev_rsi == [k \in 1..Len(cl) |-> IF k = 1 THEN NaN ELSE rsi[k - 1]]
        buy_signals == [k \in 1..Len(cl) |->
            /\ rsi[k] # NaN /\ prev_rsi[k] # NaN
            /\ RGt(rsi[k], R(oversold_threshold))
            /\ RLe(prev_rsi[k], R(oversold_threshold))]
        sell_signals == [k \in 1..Len(cl) |->
            /\ rsi[k] # NaN /\ prev_rsi[k] # NaN
            /\ RLt(rsi[k], R(overbought_threshold))
            /\ RGe(prev_rsi[k], R(overbought_threshold))]
        position == [k \in 1..Len(cl) |-> position_loop(buy_signals, sell_signals, k)]
    IN  position

rsi_strategy(cl, i, rsi_period, oversold_threshold, overbought_threshold) ==
    position_diff(rsi_position(cl, rsi_period, oversold_threshold, overbought_threshold), i)

\* 3. bollinger_bands_strategy; std_dev is a rational, the bands are
\* middle_band -/+ std * std_dev and are compared without taking the root
bollinger_bands_position(cl, window, std_dev) ==
    LET col == Ratios(cl)
        bbm == [k \in 1..Len(cl) |-> rolling_mean(col, k, window, window)]
        var == [k \in 1..Len(cl) |-> rolling_var(col, k, window)]
        defined == [k \in 1..Len(cl) |-> bbm[k] # NaN /\ var[k] # NaN]
        minus == RSub(R(0), std_dev)
        \* close > bbl, close <= bbl, close < bbu, close >= bbu at row k
        above_bbl == [k \in 1..Len(cl) |->
            defined[k] /\ GtRoot(RSub(col[k], bbm[k]), minus, var[k])]
        upto_bbl == [k \in 1..Len(cl) |-> defined[k] /\ ~above_bbl[k]]
        from_bbu == [k \in 1..Len(cl) |->
            defined[k] /\ ~GtRoot(RSub(bbm[k], col[k]), minus, var[k])]
        below_bbu == [k \in 1..Len(cl) |-> defined[k] /\ ~from_bbu[k]]
        buy_signals == [k \in 1..Len(cl) |-> k > 1 /\ above_bbl[k] /\ upto_bbl[k - 1]]
        sell_signals == [k \in 1..Len(cl) |-> k > 1 /\ below_bbu[k] /\ from_bbu[k - 1]]
        position == [k \in 1..Len(cl) |-> position_loop(buy_signals, sell_signals, k)]
    IN  position

bollinger_bands_strategy(cl, i, window, std_dev) ==
    position_diff(bollinger_bands_position(cl, window, std_dev), i)

\* Series.ewm(span, adjust=False).mean() at row i
RECURSIVE ewm_mean(_, _, _)
ewm_mean(col, i, span) ==
    LET alpha == RDiv(R(2), R(span + 1))
    IN  IF i = 1 THEN col[1]
        ELSE RAdd(RMul(alpha, col[i]),
                  RMul(RSub(R(1), alpha), ewm_mean(col, i - 1, span)))

\* _calculate_macd: the macd line and the signal line, rows 1..Len(cl)
calculate_macd(cl, fast_period, slow_period, signal_period) ==
    LET col == Ratios(cl)
        macd_line == [k \in 1..Len(cl) |->
            RSub(ewm_mean(col, k, fast_period), ewm_mean(col, k, slow_period))]
        signal_line == [k \in 1..Len(cl) |-> ewm_mean(macd_line, k, signal_period)]
    IN  [macd |-> macd_line, signal_line |-> signal_line]

\* 4. macd_strategy
macd_position(cl, fast_period, slow_period, signal_period) ==
    LET m == calculate_macd(cl, fast_period, slow_period, signal_period)
        buy_signals == [k \in 1..Len(cl) |->
            /\ k > 1
            /\ RGt(m.macd[k], m.signal_line[k])
            /\ RLe(m.macd[k - 1], m.signal_line[k - 1])]
        sell_signals == [k \in 1..Len(cl) |->
            /\ k > 1
            /\ RLt(m.macd[k], m.signal_line[k])
            /\ RGe(m.macd[k - 1], m.signal_line[k - 1])]
        position == [k \in 1..Len(cl) |-> position_loop(buy_signals, sell_signals, k)]
    IN  position

macd_strategy(cl, i, fast_period, slow_period, signal_period) ==
    position_diff(macd_position(cl, fast_period, slow_period, signal_period), i)

\* ---------------------------------------- fund_backtester/backtester.py
BtConfigs ==
    { [strategy |-> st, is_dca |-> (st = "dca_strategy"), trade_amount |-> ta,
       initial_capital |-> ic, commission_rate |-> cr,
       lookback_period |-> lb, buy_threshold |-> bt, sell_threshold |-> sl,
       interval_days |-> iv, amount |-> am,
       short_window |-> sw, long_window |-> lw] :
        st \in {"signals", "threshold_strategy", "dca_strategy", "ma_crossover_strategy"},
        ta \in {Some(a) : a \in TradeAmounts} \cup {None}, ic \in Capitals, cr \in CommissionRates,
        lb \in Lookbacks, bt \in BuyThresholds, sl \in SellThresholds,
        iv \in Intervals, am \in TradeAmounts,
        sw \in ShortWindows, lw \in LongWindows }

\* parameters a strategy does not read are fixed, so that they add no states
BtCanonical(c) ==
    /\ c.strategy # "threshold_strategy" =>
          c.lookback_period = 1 /\ c.buy_threshold = 0 /\ c.sell_threshold = 0
    /\ c.strategy # "dca_strategy" => c.interval_days = 1
    /\ c.strategy = "dca_strategy" => c.trade_amount = None
    /\ c.strategy # "ma_crossover_strategy" => c.short_window = 1 /\ c.long_window = 2

\* the signal column of row i, as the caller of run_backtest built it
BtSignals(cl, i) ==
    CASE cfg.strategy = "threshold_strategy" ->
            {threshold_strategy(cl, i, cfg.lookback_period, cfg.buy_threshold, cfg.sell_threshold)}
      [] cfg.strategy = "dca_strategy" ->
            {dca_strategy(i, cfg.interval_days, cfg.amount)}
      [] cfg.strategy = "ma_crossover_strategy" ->
            {ma_crossover_strategy(cl, i, cfg.short_window, cfg.long_window)}
      [] OTHER -> {-1, 0, 1}

\* truthiness of trade_amount: None and 0 select the full-allocation mode
Truthy(trade_amount) == trade_amount # None /\ trade_amount[1] # 0

BtFirstRow == [shares |-> R(0), cash |-> R(cfg.initial_capital),
               holdings |-> R(0), total |-> R(cfg.initial_capital)]

\* mutant: the sell branch sells half of the position
BtSellAll_Half(prev, current_price) ==
    LET shares_to_sell == RMul(prev.shares, <<1, 2>>)
        value_sold == RMul(shares_to_sell, R(current_price))
        commission == RMul(value_sold, cfg.commission_rate)
        cash_received == RSub(value_sold, commission)
    IN  [shares |-> RSub(prev.shares, shares_to_sell), cash |-> RAdd(prev.cash, cash_received),
         log |-> <<[action |-> "sell", price |-> current_price,
                    shares |-> shares_to_sell, amount |-> cash_received]>>]

\* the sell branch: the whole position is sold
BtSellAll(prev, current_price) ==
    LET shares_to_sell == prev.shares
        value_sold == RMul(shares_to_sell, R(current_price))
        commission == RMul(value_sold, cfg.commission_rate)
        cash_received == RSub(value_sold, commission)
    IN  [shares |-> R(0), cash |-> RAdd(prev.cash, cash_received),
         log |-> <<[action |-> "sell", price |-> current_price,
                    shares |-> shares_to_sell, amount |-> cash_received]>>]

\* the buy of the DCA and fixed-amount branches
BtBuy(prev, current_price, cash_to_use) ==
    LET commission == RMul(cash_to_use, cfg.commission_rate)
        shares_to_buy == RDiv(RSub(cash_to_use, commission), R(current_price))
    IN  [shares |-> RAdd(prev.shares, shares_to_buy),
         cash |-> RSub(prev.cash, cash_to_use),
         log |-> <<[action |-> "buy", price |-> current_price,
                    shares |-> shares_to_buy, amount |-> cash_to_use]>>]

\* mutant: the full-allocation buy takes only the net amount out of the cash
BtBuyFull_KeepCommission(prev, current_price) ==
    LET cash_to_use == prev.cash
        commission == RMul(cash_to_use, cfg.commission_rate)
        shares_to_buy == RDiv(RSub(cash_to_use, commission), R(current_price))
    IN  [shares |-> shares_to_buy,
         cash |-> commission,
         log |-> <<[action |-> "buy", price |-> current_price,
                    shares |-> shares_to_buy, amount |-> cash_to_use]>>]

\* the buy of the full-allocation branch: replaces the shares, empties the cash
BtBuyFull(prev, current_price) ==
    LET cash_to_use == prev.cash
        commission == RMul(cash_to_use, cfg.commission_rate)
        shares_to_buy == RDiv(RSub(cash_to_use, commission), R(current_price))
    IN  [shares |-> shares_to_buy,
         cash |-> R(0),
         log |-> <<[action |-> "buy", price |-> current_price,
                    shares |-> shares_to_buy, amount |-> cash_to_use]>>]

BtHold(prev) == [shares |-> prev.shares, cash |-> prev.cash, log |-> <<>>]

\* mutant: a buy that is never checked against the available cash
BtFunded_Unchecked(row_cash, amount) == TRUE

\* the guard of a DCA or fixed-amount buy
BtFunded(row_cash, amount) == RGe(row_cash, amount)

\* mutant: the buy guards accept a row whose cash is one trade amount short
\* (full allocation: an empty cash)
BtRow_LooseGuards(prev, current_price, sig) ==
    IF ~cfg.is_dca /\ sig = -1 /\ RGt(prev.shares, R(0)) THEN BtSellAll(prev, current_price)
    ELSE IF cfg.is_dca THEN
        IF sig > 0 /\ RGe(prev.cash, R(0))
        THEN BtBuy(prev, current_price, RMin(prev.cash, R(sig))) ELSE BtHold(prev)
    ELSE IF Truthy(cfg.trade_amount) THEN
        IF sig = 1 /\ RGe(prev.cash, R(0))
        THEN BtBuy(prev, current_price, RMin(prev.cash, R(cfg.trade_amount[1])))
        ELSE BtHold(prev)
    ELSE
        IF sig = 1 /\ RGe(prev.cash, R(0)) THEN BtBuyFull(prev, current_price) ELSE BtHold(prev)

\* one iteration of the loop: price current_price and signal sig;
\* prev is the row inherited from the previous date
BtRow(prev, current_price, sig) ==
    IF ~cfg.is_dca /\ sig = -1 /\ RGt(prev.shares, R(0)) THEN BtSellAll(prev, current_price)
    ELSE IF cfg.is_dca THEN
        IF sig > 0 /\ BtFunded(prev.cash, R(sig))
        THEN BtBuy(prev, current_price, R(sig)) ELSE BtHold(prev)
    ELSE IF Truthy(cfg.trade_amount) THEN
        IF sig = 1 /\ BtFunded(prev.cash, R(cfg.trade_amount[1]))
        THEN BtBuy(prev, current_price, R(cfg.trade_amount[1])) ELSE BtHold(prev)
    ELSE
        IF sig = 1 /\ RGt(prev.cash, R(0)) THEN BtBuyFull(prev, current_price) ELSE BtHold(prev)

\* mutant: every date starts from the initial row
BtInherit_Fresh(rows, i) == BtFirstRow

\* the shares and cash a date starts from: those of the previous date
BtInherit(rows, i) == IF i > 1 THEN rows[i - 1] ELSE BtFirstRow

Stamp(log, i) == [k \in 1..Len(log) |-> [date |-> i] @@ log[k]]

BtStep ==
    /\ engine = "backtester" /\ pc = "loop" /\ Len(close) < MaxLen
    /\ \E current_price \in Prices :
         LET i == Len(close) + 1
             cl == Append(close, current_price)
         IN  \E sig \in BtSignals(cl, i) :
               LET prev == BtInherit(portfolio, i)
                   r == BtRow(prev, current_price, sig)
                   holdings == RMul(r.shares, R(current_price))
               IN  /\ close' = cl
                   /\ signal' = Append(signal, sig)
                   /\ portfolio' = Append(portfolio,
                          [shares |-> r.shares, cash |-> r.cash,
                           holdings |-> holdings, total |-> RAdd(holdings, r.cash)])
                   /\ trade_log_list' = trade_log_list \o Stamp(r.log, i)
    /\ UNCHANGED <<engine, cfg, pc, performance, appVars, fbVars, auxVars>>

\* mutant: the final settlement credits the gross sale value
BtSettle_NoCommission(last, final_price) ==
    IF cfg.is_dca /\ RGt(last.shares, R(0)) THEN
        LET final_cash == RAdd(last.cash, RMul(last.shares, R(final_price)))
        IN  [last EXCEPT !.cash = final_cash, !.holdings = R(0), !.total = final_cash]
    ELSE last

\* the code after the loop: final settlement of a DCA run
BtSettle(last, final_price) ==
    IF cfg.is_dca /\ RGt(last.shares, R(0)) THEN
        LET shares_to_sell == last.shares
            value_sold == RMul(shares_to_sell, R(final_price))
            commission == RMul(value_sold, cfg.commission_rate)
            final_cash == RSub(RAdd(last.cash, value_sold), commission)
        IN  [last EXCEPT !.cash = final_cash, !.holdings = R(0), !.total = final_cash]
    ELSE last

\* float division: x / 0 is NaN for x = 0 and infinite otherwise (numpy floats)
FloatDiv(a, b) ==
    IF b[1] = 0 THEN (IF a[1] = 0 THEN NaN ELSE Inf) ELSE RDiv(a, b)

\* total_return = (final_total / initial_capital) - 1
total_return(final_total, initial_capital) ==
    LET ratio == FloatDiv(final_total, R(initial_capital))
    IN  IF ratio = NaN \/ ratio = Inf THEN ratio ELSE RSub(ratio, R(1))

BtFinish ==
    /\ engine = "backtester" /\ pc = "loop" /\ Len(close) >= 1
    /\ LET n == Len(close)
           settled == BtSettle(portfolio[n], close[n])
       IN  /\ portfolio' = [portfolio EXCEPT ![n] = settled]
           /\ performance' = Some([initial_capital |-> cfg.initial_capital,
                                   final_portfolio_value |-> settled.total,
                                   total_return |->
                                       total_return(settled.total, cfg.initial_capital)])
    /\ pc' = "done"
    /\ UNCHANGED <<engine, cfg, close, signal, trade_log_list, appVars, fbVars, auxVars>>

\* ------------------------------------------------- app.py run_backtest
AppConfigs ==
    [threshold_buy_amount : TradeAmounts, buy_threshold : AppBuyThresholds,
     sell_threshold : AppSellThresholds, lookback_period : Lookbacks]

\* fund_data['lookback_return'] of row i (1-based), in percent; NaN on the
\* first lookback_period rows
lookback_notna(i, lookback_period) == i - lookback_period >= 1

lookback_return(cl, i, lookback_period) ==
    RMul(RSub(RDiv(R(cl[i]), R(cl[i - lookback_period])), R(1)), R(100))

\* get_fund_data marks every row of the aligned series as a trading day
is_trading_day(i) == TRUE

\* the sell branch of the threshold loop
AppSell(st, i, cl) ==
    LET sale_value == RMul(st.thr_shares, R(cl[i]))
    IN  [thr_cash |-> RAdd(st.thr_cash, sale_value),
         thr_shares |-> R(0),
         total_thr_invested |-> st.total_thr_invested,
         log |-> <<[date |-> i, type |-> "sell", price |-> cl[i],
                    shares |-> st.thr_shares, value |-> sale_value,
                    reference_nav |-> cl[i - cfg.lookback_period],
                    reference_date |-> i - cfg.lookback_period]>>]

\* mutant: every buy counts its whole amount as external capital
AppNewCapital_RunningSum(st, buy_amount) == buy_amount

\* the external capital a buy draws when the cash does not cover it
AppNewCapital(st, buy_amount) ==
    IF RGe(st.thr_cash, buy_amount) THEN R(0) ELSE RSub(buy_amount, st.thr_cash)

\* the buy branch of the threshold loop
AppBuy(st, i, cl) ==
    LET buy_amount == R(cfg.threshold_buy_amount)
        shares_to_buy == RDiv(buy_amount, R(cl[i]))
    IN  [thr_cash |-> IF RGe(st.thr_cash, buy_amount)
                      THEN RSub(st.thr_cash, buy_amount) ELSE R(0),
         thr_shares |-> RAdd(st.thr_shares, shares_to_buy),
         total_thr_invested |-> RAdd(st.total_thr_invested, AppNewCapital(st, buy_amount)),
         log |-> <<[date |-> i, type |-> "buy", price |-> cl[i],
                    shares |-> shares_to_buy, value |-> buy_amount,
                    reference_nav |-> cl[i - cfg.lookback_period],
                    reference_date |-> i - cfg.lookback_period]>>]

AppHold(st) == [thr_cash |-> st.thr_cash, thr_shares |-> st.thr_shares,
                total_thr_invested |-> st.total_thr_invested, log |-> <<>>]

\* mutant: the sell branch does not ask for shares
AppRow_SellWithoutShares(st, i, cl) ==
    IF lookback_notna(i, cfg.lookback_period) /\ is_trading_day(i) THEN
        IF RGe(lookback_return(cl, i, cfg.lookback_period), R(cfg.sell_threshold))
        THEN AppSell(st, i, cl)
        ELSE IF RLe(lookback_return(cl, i, cfg.lookback_period), R(cfg.buy_threshold))
        THEN AppBuy(st, i, cl)
        ELSE AppHold(st)
    ELSE AppHold(st)

\* the body of the loop over fund_data.iterrows()
AppRow(st, i, cl) ==
    IF lookback_notna(i, cfg.lookback_period) /\ is_trading_day(i) THEN
        IF RGt(st.thr_shares, R(0))
           /\ RGe(lookback_return(cl, i, cfg.lookback_period), R(cfg.sell_threshold))
        THEN AppSell(st, i, cl)
        ELSE IF RLe(lookback_return(cl, i, cfg.lookback_period), R(cfg.buy_threshold))
        THEN AppBuy(st, i, cl)
        ELSE AppHold(st)
    ELSE AppHold(st)

AppStep ==
    /\ engine = "app" /\ pc = "loop" /\ Len(close) < MaxRows
    /\ \E price \in AppPrices :
         LET i == Len(close) + 1
             cl == Append(close, price)
             r == AppRow([thr_cash |-> thr_cash, thr_shares |-> thr_shares,
                          total_thr_invested |-> total_thr_invested], i, cl)
             current_value == RAdd(r.thr_cash, RMul(r.thr_shares, R(price)))
         IN  /\ close' = cl
             /\ thr_cash' = r.thr_cash
             /\ thr_shares' = r.thr_shares
             /\ total_thr_invested' = r.total_thr_invested
             /\ thr_transactions' = thr_transactions \o r.log
             /\ thr_portfolio_value_list' = Append(thr_portfolio_value_list, current_value)
    /\ UNCHANGED <<engine, cfg, pc, results, btVars, fbVars, auxVars>>

\* the code after the loop: final value and return rate of the threshold run
AppResult(value_list, invested) ==
    LET thr_final_value == IF value_list # <<>> THEN Last(value_list) ELSE R(0)
        thr_return_rate ==
            IF RGt(invested, R(0))
            THEN RMul(RSub(RDiv(thr_final_value, invested), R(1)), R(100))
            ELSE R(0)
    IN  [final_value |-> thr_final_value, total_invested |-> invested,
         return_rate |-> thr_return_rate]

AppFinish ==
    /\ engine = "app" /\ pc = "loop" /\ Len(close) >= 1
    /\ results' = Some(AppResult(thr_portfolio_value_list, total_thr_invested))
    /\ pc' = "done"
    /\ UNCHANGED <<engine, cfg, close, thr_cash, thr_shares, total_thr_invested,
                   thr_portfolio_value_list, thr_transactions, btVars, fbVars, auxVars>>

\* ------------------ fund_backtest.py FundBacktester._simulate_threshold_strategy
FbConfigs ==
    [initial_amount : Capitals,
     buy_threshold : {Some(b) : b \in BuyThresholds} \cup {None},
     sell_threshold : {Some(s) : s \in SellThresholds} \cup {None},
     lookback_period : Lookbacks]

\* every buy takes at most 20% of the initial amount
FbBuyAmount(row_cash, initial_amount) ==
    RMin(row_cash, RMul(R(initial_amount), <<1, 5>>))

\* mutant: a sell takes the whole position
FbSharesToSell_All(row_shares) == row_shares

\* every sell takes 30% of the shares held
FbSharesToSell(row_shares) == RMul(row_shares, <<3, 10>>)

\* the body of the loop for row i (1-based) with the locals st = [shares, cash]
FbRow(st, i, cl) ==
    LET current_nav == R(cl[i])
        hold == [shares |-> st.shares, cash |-> st.cash, action |-> "hold",
                 signal |-> 0, lookback_return |-> R(0)]
    IN  IF i - 1 >= cfg.lookback_period THEN
            LET lr == lookback_return(cl, i, cfg.lookback_period)
            IN  IF cfg.buy_threshold # None /\ RLe(lr, R(cfg.buy_threshold[1]))
                   /\ RGt(st.cash, R(0))
                THEN LET buy_amount == FbBuyAmount(st.cash, cfg.initial_amount)
                         shares_to_buy == RDiv(buy_amount, current_nav)
                     IN  [shares |-> RAdd(st.shares, shares_to_buy),
                          cash |-> RSub(st.cash, buy_amount),
                          action |-> "buy", signal |-> 1, lookback_return |-> lr]
                ELSE IF cfg.sell_threshold # None /\ RGe(lr, R(cfg.sell_threshold[1]))
                        /\ RGt(st.shares, R(0))
                THEN LET shares_to_sell == FbSharesToSell(st.shares)
                         sell_amount == RMul(shares_to_sell, current_nav)
                     IN  [shares |-> RSub(st.shares, shares_to_sell),
                          cash |-> RAdd(st.cash, sell_amount),
                          action |-> "sell", signal |-> -1, lookback_return |-> lr]
                ELSE [hold EXCEPT !.lookback_return = lr]
        ELSE hold

FbStep ==
    /\ engine = "fund_backtest" /\ pc = "loop" /\ Len(close) < MaxRows
    /\ \E nav \in Prices :
         LET i == Len(close) + 1
             cl == Append(close, nav)
             r == FbRow([shares |-> shares, cash |-> cash], i, cl)
         IN  /\ close' = cl
             /\ shares' = r.shares
             /\ cash' = r.cash
             /\ data' = Append(data,
                    [shares |-> r.shares, cash |-> r.cash,
                     portfolio_value |-> RAdd(RMul(r.shares, R(nav)), r.cash),
                     action |-> r.action, signal |-> r.signal,
                     lookback_return |-> r.lookback_return])
    /\ UNCHANGED <<engine, cfg, pc, btVars, appVars, auxVars>>

FbFinish ==
    /\ engine = "fund_backtest" /\ pc = "loop" /\ Len(close) >= 1
    /\ pc' = "done"
    /\ UNCHANGED <<engine, cfg, close, btVars, appVars, fbVars, auxVars>>

\* ------------------------------------------------ advisory classification
\* fund_monitor/core.py get_strategy_advice, step 3
get_strategy_advice(estimated_nav, reference_nav, buy_threshold, sell_threshold) ==
    LET estimated_return == RMul(RSub(RDiv(estimated_nav, reference_nav), R(1)), R(100))
    IN  IF RLe(estimated_return, R(buy_threshold)) THEN "buy"
        ELSE IF RGe(estimated_return, R(sell_threshold)) THEN "sell"
        ELSE "hold"

\* app.py, advice view
advice_view(estimated_nav_input, reference_nav, buy_threshold, sell_threshold) ==
    LET estimated_return == RMul(RSub(RDiv(estimated_nav_input, reference_nav), R(1)), R(100))
    IN  IF RLe(estimated_return, R(buy_threshold)) THEN "buy"
        ELSE IF RGe(estimated_return, R(sell_threshold)) THEN "sell"
        ELSE "hold"

\* ------------------------- app.py run_backtest: get_dca_investment_dates
\* A date is its day number in 2024: day 1 is Monday 2024-01-01.
DaysInMonth == <<31, 29, 31, 30, 31, 30, 31, 31, 30, 31, 30, 31>>

RECURSIVE DaysBefore(_)
DaysBefore(m) == IF m = 1 THEN 0 ELSE DaysBefore(m - 1) + DaysInMonth[m - 1]

MonthOf(n) == CHOOSE m \in 1..12 : DaysBefore(m) < n /\ n <= DaysBefore(m) + DaysInMonth[m]
DayOf(n) == n - DaysBefore(MonthOf(n))
Weekday(n) == (n - 1) % 7                 \* Timestamp.weekday(): 0 is Monday
Replace(n, day) == DaysBefore(MonthOf(n)) + day      \* Timestamp.replace(day=day)

SetMin(S) == CHOOSE x \in S : \A y \in S : x <= y
SetMax(S) == CHOOSE x \in S : \A y \in S : x >= y

\* the series index: the trading dates from first to last; a trading date is
\* a weekday that is no holiday (get_trade_cal, or its bdate_range fallback)
TradingDates(first, last, holidays) ==
    {n \in first..last : Weekday(n) <= 4 /\ n \notin holidays}

HolidayCandidates == {1, 32, 36, 37, 88, 89}
DtIndexes ==
    {TradingDates(first, last, holidays) :
        first \in 1..3, last \in (MaxDay - 6)..MaxDay,
        holidays \in {H \in SUBSET HolidayCandidates : Cardinality(H) <= MaxHolidays}}

DcaDays == {1, 15, 28, 30}      \* the widget offers 1..28; 30 exercises the clamp
DtConfigs ==
    {[freq |-> "monthly", day |-> dd, dca_amount |-> am] : dd \in DcaDays, am \in TradeAmounts}
    \cup {[freq |-> "weekly", day |-> wd, dca_amount |-> am] : wd \in 0..4, am \in TradeAmounts}

\* pd.Grouper(freq='MS'): the key of a date's group is its month
MonthGroup(dates, m) == {n \in dates : MonthOf(n) = m}

\* pd.Grouper(freq='W-MON'): the bins are closed on the right and end on a
\* Monday; the key of a date's group is the first Monday on or after it
WeekKey(n) == n + ((7 - Weekday(n)) % 7)
WeekGroup(dates, key) == {n \in dates : WeekKey(n) = key}

\* mutant: the month of the date found is not compared with the target's
MonthlyPick_AnyMonth(dates, group, day) ==
    LET month_start == SetMin(group)
        actual_day == IF day < DaysInMonth[MonthOf(month_start)]
                      THEN day ELSE DaysInMonth[MonthOf(month_start)]
        target_date == Replace(month_start, actual_day)
        potential_dates == {n \in dates : n >= target_date}
    IN  IF potential_dates # {} THEN {SetMin(potential_dates)} ELSE {}

\* the body of the monthly loop: the dates added for one (non-empty) group
MonthlyPick(dates, group, day) ==
    LET month_start == SetMin(group)
        actual_day == IF day < DaysInMonth[MonthOf(month_start)]
                      THEN day ELSE DaysInMonth[MonthOf(month_start)]
        target_date == Replace(month_start, actual_day)
        potential_dates == {n \in dates : n >= target_date}
    IN  IF potential_dates # {}
        THEN LET actual_date == SetMin(potential_dates)
             IN  IF MonthOf(actual_date) = MonthOf(target_date)
                 THEN {actual_date} ELSE {}
        ELSE {}

\* the body of the weekly loop: the dates added for one group
WeeklyPick(group, target_weekday) ==
    LET potential_dates == {n \in group : Weekday(n) >= target_weekday}
    IN  IF potential_dates # {} THEN {SetMin(potential_dates)} ELSE {}

RECURSIVE Sorted(_)
Sorted(S) == IF S = {} THEN <<>> ELSE <<SetMin(S)>> \o Sorted(S \ {SetMin(S)})

Range(s) == {s[k] : k \in 1..Len(s)}

DtIdle ==
    /\ dt_cfg = None /\ dt_pc = "idle" /\ all_dates = {} /\ dt_group = 0
    /\ investment_dates = {} /\ dca_investment_dates = <<>>
    /\ dca_investments = {} /\ total_dca_invested = 0

DtInit ==
    /\ dt_cfg \in DtConfigs
    /\ all_dates \in DtIndexes
    /\ dt_pc = "groups"
    /\ dt_group = IF dt_cfg.freq = "monthly" THEN MonthOf(SetMin(all_dates))
                  ELSE WeekKey(SetMin(all_dates))
    /\ investment_dates = {}
    /\ dca_investment_dates = <<>>
    /\ dca_investments = {}
    /\ total_dca_invested = 0

\* one iteration of the loop over the monthly groups; group.index[0] of an
\* empty group raises IndexError
DtMonthGroup ==
    /\ dt_pc = "groups" /\ dt_cfg.freq = "monthly"
    /\ dt_group <= MonthOf(SetMax(all_dates))
    /\ LET group == MonthGroup(all_dates, dt_group)
       IN  IF group = {}
           THEN dt_pc' = "IndexError" /\ UNCHANGED investment_dates
           ELSE /\ investment_dates' =
                      investment_dates \cup MonthlyPick(all_dates, group, dt_cfg.day)
                /\ UNCHANGED dt_pc
    /\ dt_group' = dt_group + 1
    /\ UNCHANGED <<dt_cfg, all_dates, dca_investment_dates, dca_investments,
                   total_dca_invested, dtRest>>

\* one iteration of the loop over the weekly groups
DtWeekGroup ==
    /\ dt_pc = "groups" /\ dt_cfg.freq = "weekly"
    /\ dt_group <= WeekKey(SetMax(all_dates))
    /\ investment_dates' =
           investment_dates \cup WeeklyPick(WeekGroup(all_dates, dt_group), dt_cfg.day)
    /\ dt_group' = dt_group + 7
    /\ UNCHANGED <<dt_cfg, dt_pc, all_dates, dca_investment_dates, dca_investments,
                   total_dca_invested, dtRest>>

\* return pd.DatetimeIndex(sorted(list(investment_dates)))
DtReturn ==
    /\ dt_pc = "groups"
    /\ dt_group > (IF dt_cfg.freq = "monthly" THEN MonthOf(SetMax(all_dates))
                   ELSE WeekKey(SetMax(all_dates)))
    /\ dca_investment_dates' = Sorted(investment_dates)
    /\ dt_pc' = "invest"
    /\ UNCHANGED <<dt_cfg, all_dates, dt_group, investment_dates, dca_investments,
                   total_dca_invested, dtRest>>

\* run_backtest, the purchases: one on each returned date of the series
DtInvest ==
    /\ dt_pc = "invest"
    /\ dca_investments' =
           IF dt_cfg.dca_amount > 0 /\ dca_investment_dates # <<>>
           THEN Range(dca_investment_dates) \cap all_dates ELSE {}
    /\ total_dca_invested' = Len(dca_investment_dates) * dt_cfg.dca_amount
    /\ dt_pc' = "done"
    /\ UNCHANGED <<dt_cfg, all_dates, dt_group, investment_dates,
                   dca_investment_dates, dtRest>>

\* -------- the calendar aligners: data_manager.get_fund_history, app.get_fund_data
\* A frame is a function from its index dates to closing values; a value is a
\* rational or NaN.  The feed carries one observation per date, on trading dates.
AlDays == 1..MaxAlDay
Feeds ==
    UNION {[D -> {R(v) : v \in Prices}] : D \in SUBSET TradingDates(1, MaxAlDay, {})}
Ranges == {r \in AlDays \X AlDays : r[1] <= r[2]}

\* get_trade_cal(start_date, end_date)
get_trade_cal(start_dt, end_dt) == TradingDates(start_dt, end_dt, {})

\* DataFrame.reindex(trade_cal)
Reindex(frame, trade_cal) ==
    [n \in trade_cal |-> IF n \in DOMAIN frame THEN frame[n] ELSE NaN]

\* ffill(): the last value at or before the row, when there is one
Ffill(frame) ==
    [n \in DOMAIN frame |->
        LET known == {k \in DOMAIN frame : k <= n /\ frame[k] # NaN}
        IN  IF known # {} THEN frame[SetMax(known)] ELSE NaN]

\* bfill(): the first value at or after the row, when there is one
Bfill(frame) ==
    [n \in DOMAIN frame |->
        LET known == {k \in DOMAIN frame : k >= n /\ frame[k] # NaN}
        IN  IF known # {} THEN frame[SetMin(known)] ELSE NaN]

\* frame[(index >= start_dt) & (index <= end_dt)]
Between(frame, start_dt, end_dt) ==
    [n \in {k \in DOMAIN frame : k >= start_dt /\ k <= end_dt} |-> frame[n]]

EmptyFrame == [kind |-> "frame", rows |-> <<>>]
Frame(rows) == [kind |-> "frame", rows |-> rows]
NoFrame == [kind |-> "None"]

\* data_manager.get_fund_history: the range is cut out before the fill
get_fund_history(raw, start_dt, end_dt) ==
    LET trade_cal == get_trade_cal(start_dt, end_dt)
        in_range == Between(raw, start_dt, end_dt)
    IN  IF DOMAIN raw = {} THEN EmptyFrame
        ELSE IF DOMAIN in_range = {} THEN EmptyFrame
        ELSE Frame(Bfill(Ffill(Reindex(in_range, trade_cal))))

\* app.get_fund_data: the fill runs over the calendar from the first to the
\* last observation, the range is cut out afterwards
get_fund_data(raw, start_dt, end_dt) ==
    IF DOMAIN raw = {} THEN NoFrame
    ELSE LET cal_start == SetMin(DOMAIN raw)
             cal_end == SetMax(DOMAIN raw)
             trade_cal == get_trade_cal(cal_start, cal_end)
             filled == Bfill(Ffill(Reindex(raw, trade_cal)))
             cut == Between(filled, start_dt, end_dt)
         IN  IF DOMAIN cut = {} THEN NoFrame ELSE Frame(cut)

AlIdle ==
    /\ al_impl = "none" /\ al_pc = "idle" /\ fund_data_raw = <<>>
    /\ start_date = 0 /\ end_date = 0 /\ fund_data = NoFrame /\ backtest_ran = FALSE

AlInit ==
    /\ al_impl \in {"data_manager", "app"}
    /\ al_pc = "call"
    /\ fund_data_raw \in Feeds
    /\ \E r \in Ranges : start_date = r[1] /\ end_date = r[2]
    /\ fund_data = NoFrame
    /\ backtest_ran = FALSE

\* fund_backtester/app.py: fund_history = data_manager.get_fund_history(...)
AlGetFundHistory ==
    /\ al_pc = "call" /\ al_impl = "data_manager"
    /\ fund_data' = get_fund_history(fund_data_raw, start_date, end_date)
    /\ al_pc' = "returned"
    /\ UNCHANGED <<al_impl, fund_data_raw, start_date, end_date, backtest_ran, alRest>>

\* app.py: fund_data = get_fund_data(fund_code, start_date, end_date)
AlGetFundData ==
    /\ al_pc = "call" /\ al_impl = "app"
    /\ fund_data' = get_fund_data(fund_data_raw, start_date, end_date)
    /\ al_pc' = "returned"
    /\ UNCHANGED <<al_impl, fund_data_raw, start_date, end_date, backtest_ran, alRest>>

\* fund_backtester/app.py: st.stop() on an empty frame, else strategy and backtest
AlCallerBacktester ==
    /\ al_pc = "returned" /\ al_impl = "data_manager"
    /\ backtest_ran' = ~(DOMAIN fund_data.rows = {})
    /\ al_pc' = "done"
    /\ UNCHANGED <<al_impl, fund_data_raw, start_date, end_date, fund_data, alRest>>

\* app.py backtest view: run_backtest unless fund_data is None or empty
AlCallerApp ==
    /\ al_pc = "returned" /\ al_impl = "app"
    /\ backtest_ran' = ~(fund_data = NoFrame \/ DOMAIN fund_data.rows = {})
    /\ al_pc' = "done"
    /\ UNCHANGED <<al_impl, fund_data_raw, start_date, end_date, fund_data, alRest>>

\* ------------------------------------ the reference of the advisory evaluator
\* fund_monitor/core.py get_reference_nav, the advice view of app.py, and the
\* reference columns of app.run_backtest on the aligned series of the same history
AdvLookbacks == {1, 2, 3}

\* the recorded history: one NAV per recorded date, on trading dates up to
\* today, with at most one trading date without a record
AdvHistories(today_dt) ==
    { [n \in D |-> IF rising THEN R(100 + n) ELSE R(100)] :
        D \in { TradingDates(1, today_dt, {}) \ gap :
                   gap \in {{}} \cup {{g} : g \in TradingDates(1, today_dt, {})} },
        rising \in BOOLEAN }

ReferenceRow(hist, n) == Some([reference_nav |-> hist[n], reference_date |-> n])

\* core.get_reference_nav: the most recent record on or before
\* today - timedelta(days=lookback_period)
get_reference_nav(hist, today_dt, lookback_days) ==
    LET reference_date_target == today_dt - lookback_days
        reference_data == {n \in DOMAIN hist : n <= reference_date_target}
    IN  IF reference_data = {} THEN None
        ELSE ReferenceRow(hist, SetMax(reference_data))

\* app.py advice view: past_data.iloc[-lookback_period] of the records before today
advice_reference_row(hist, today_dt, lookback_days) ==
    LET past_data == Sorted({n \in DOMAIN hist : n < today_dt})
    IN  IF Len(past_data) < lookback_days THEN None
        ELSE ReferenceRow(hist, past_data[Len(past_data) - lookback_days + 1])

\* fund_data['last_trading_date'] = fund_data.index.to_series()
last_trading_date(rows, n) == n

\* app.run_backtest: reference_nav and reference_date of the row of today, the
\* series being the records before today and today's row, aligned by get_fund_data
backtest_reference(hist, today_dt, lookback_days) ==
    LET raw == [n \in {k \in DOMAIN hist : k < today_dt} \cup {today_dt} |->
                    IF n = today_dt THEN R(100) ELSE hist[n]]
        aligned == get_fund_data(raw, SetMin(DOMAIN raw), today_dt).rows
        index == Sorted(DOMAIN aligned)
        i == Len(index)
    IN  IF i - lookback_days < 1 THEN None
        ELSE Some([reference_nav |-> aligned[index[i - lookback_days]],
                   reference_date |-> last_trading_date(aligned, index[i - lookback_days])])

AdvIdle ==
    /\ adv_pc = "idle" /\ adv_hist_data_raw = <<>> /\ adv_today = 0
    /\ adv_lookback_period = 0 /\ adv_core_reference = None
    /\ adv_app_reference = None /\ adv_shift_reference = None

AdvInit ==
    /\ adv_pc = "core"
    /\ adv_today \in TradingDates(2, MaxAdvDay, {})
    /\ adv_hist_data_raw \in AdvHistories(adv_today)
    /\ adv_lookback_period \in AdvLookbacks
    /\ adv_core_reference = None
    /\ adv_app_reference = None
    /\ adv_shift_reference = None

AdvGetReferenceNav ==
    /\ adv_pc = "core"
    /\ adv_core_reference' =
          get_reference_nav(adv_hist_data_raw, adv_today, adv_lookback_period)
    /\ adv_pc' = "app"
    /\ UNCHANGED <<adv_hist_data_raw, adv_today, adv_lookback_period,
                   adv_app_reference, adv_shift_reference, advRest>>

AdvAdviceView ==
    /\ adv_pc = "app"
    /\ adv_app_reference' =
          advice_reference_row(adv_hist_data_raw, adv_today, adv_lookback_period)
    /\ adv_pc' = "backtest"
    /\ UNCHANGED <<adv_hist_data_raw, adv_today, adv_lookback_period,
                   adv_core_reference, adv_shift_reference, advRest>>

AdvRunBacktest ==
    /\ adv_pc = "backtest"
    /\ adv_shift_reference' =
          backtest_reference(adv_hist_data_raw, adv_today, adv_lookback_period)
    /\ adv_pc' = "done"
    /\ UNCHANGED <<adv_hist_data_raw, adv_today, adv_lookback_period,
                   adv_core_reference, adv_app_reference, advRest>>

\* ------------------------ fund_monitor/strategy.py: the notification tracker
FundCodes == {"000001", "110020"}
EstimatedChanges == {-3, -2, 0, 2, 3}     \* gszzl, in percent
fund_config == [buy_threshold |-> -2, sell_threshold |-> 2]

\* g_sent_notifications.get(fund_code): "" stands for a missing key
NoNotification == [f \in FundCodes |-> ""]

\* the notification_type computed by check_and_notify; "" stands for None
notification_type(tracked, gszzl) ==
    IF gszzl <= fund_config.buy_threshold THEN (IF tracked # "buy" THEN "buy" ELSE "")
    ELSE IF gszzl >= fund_config.sell_threshold THEN (IF tracked # "sell" THEN "sell" ELSE "")
    ELSE ""

NtIdle ==
    /\ nt_active = FALSE /\ g_sent_notifications = NoNotification
    /\ nt_outbox = <<>> /\ nt_epoch = 0 /\ nt_calls = 0

NtInit ==
    /\ nt_active = TRUE /\ g_sent_notifications = NoNotification
    /\ nt_outbox = <<>> /\ nt_epoch = 0 /\ nt_calls = 0

check_and_notify(fund_code, gszzl) ==
    /\ nt_active /\ nt_calls < MaxCalls
    /\ LET type == notification_type(g_sent_notifications[fund_code], gszzl)
       IN  /\ g_sent_notifications' =
                 IF type # "" THEN [g_sent_notifications EXCEPT ![fund_code] = type]
                 ELSE g_sent_notifications
           /\ nt_outbox' =
                 IF type # ""
                 THEN Append(nt_outbox, [fund_code |-> fund_code, type |-> type,
                                         epoch |-> nt_epoch])
                 ELSE nt_outbox
    /\ nt_calls' = nt_calls + 1
    /\ UNCHANGED <<nt_active, nt_epoch, ntRest>>

NtCheckAndNotify ==
    \E fund_code \in FundCodes, gszzl \in EstimatedChanges : check_and_notify(fund_code, gszzl)

reset_sent_notifications ==
    /\ nt_active /\ nt_epoch < MaxResets
    /\ g_sent_notifications' = NoNotification
    /\ nt_epoch' = nt_epoch + 1
    /\ UNCHANGED <<nt_active, nt_outbox, nt_calls, ntRest>>

\* --------------------------------------- monitor.py: the daily decision report
MinMonDay == 4       \* the monitor is started on Thursday 2024-01-04
MonDays == MinMonDay..MaxMonDay
MonCalendars ==
    {TradingDates(1, MaxMonDay, h) : h \in {{}} \cup {{n} : n \in MonDays}}
ReportOutcomes == {"no_strategies", "sent", "failed", "raised"}
EmptyCache == [date |-> 0, days |-> {}]

\* is_today_trade_day: the answer, the calendar it came from and the new cache;
\* fetched is the calendar the API returned, None when the call failed
is_today_trade_day(today_dt, cache, fetched) ==
    IF cache.date = today_dt THEN
        IF cache.days # {}
        THEN [value |-> today_dt \in cache.days, by |-> "calendar", cache |-> cache]
        ELSE [value |-> Weekday(today_dt) < 5, by |-> "weekday", cache |-> cache]
    ELSE IF fetched # None THEN
        [value |-> today_dt \in fetched[1], by |-> "calendar",
         cache |-> [date |-> today_dt, days |-> fetched[1]]]
    ELSE
        [value |-> Weekday(today_dt) < 5, by |-> "weekday",
         cache |-> [date |-> today_dt, days |-> {}]]

\* now.hour == 14 and now.minute >= 45
is_time(now) == now.slot = "window"

\* mutant: only a delivered report marks the date
report_sent_date_OnlyDelivered(today_dt, outcome, sent_date) ==
    IF outcome = "sent" THEN today_dt ELSE sent_date

\* g_decision_report_sent_date after send_decision_report: every return marks
\* the date, an exception leaves it
report_sent_date(today_dt, outcome, sent_date) ==
    IF outcome = "raised" THEN sent_date ELSE today_dt

MnIdle ==
    /\ mn_pc = "idle" /\ mn_now = [day |-> 0, slot |-> "before"] /\ mn_trade_days = {}
    /\ mn_pending = 0 /\ mn_reports = <<>>
    /\ g_decision_report_sent_date = 0 /\ g_trade_days_cache = EmptyCache

\* main(): one monitor_job event entered, then s.run()
MnInit ==
    /\ mn_pc = "sleep"
    /\ mn_now \in [day : {MinMonDay}, slot : {"before", "window", "after"}]
    /\ mn_trade_days \in MonCalendars
    /\ mn_pending = 1
    /\ mn_reports = <<>>
    /\ g_decision_report_sent_date = 0
    /\ g_trade_days_cache = EmptyCache

\* time passes while the scheduler sleeps
MnTick ==
    /\ mn_pc = "sleep"
    /\ \/ /\ mn_now.slot = "before" /\ mn_now' = [mn_now EXCEPT !.slot = "window"]
       \/ /\ mn_now.slot \in {"before", "window"} /\ mn_now' = [mn_now EXCEPT !.slot = "after"]
       \/ /\ mn_now.day < MaxMonDay
          /\ mn_now' = [day |-> mn_now.day + 1, slot |-> "before"]
    /\ UNCHANGED <<mn_pc, mn_trade_days, mn_pending, mn_reports,
                   g_decision_report_sent_date, g_trade_days_cache, mnRest>>

\* the scheduler takes the due event out of the queue and calls monitor_job
MnStart ==
    /\ mn_pc = "sleep" /\ mn_pending >= 1
    /\ mn_pending' = mn_pending - 1
    /\ mn_pc' = "enter"
    /\ UNCHANGED <<mn_now, mn_trade_days, mn_reports,
                   g_decision_report_sent_date, g_trade_days_cache, mnRest>>

\* monitor_job: scheduler.enter(interval, 1, monitor_job, ...)
MnEnter ==
    /\ mn_pc = "enter"
    /\ mn_pending' = mn_pending + 1
    /\ mn_pc' = "check"
    /\ UNCHANGED <<mn_now, mn_trade_days, mn_reports,
                   g_decision_report_sent_date, g_trade_days_cache, mnRest>>

\* monitor_job: today == g_decision_report_sent_date, return
MnAlreadySent ==
    /\ mn_pc = "check" /\ mn_now.day = g_decision_report_sent_date
    /\ mn_pc' = "sleep"
    /\ UNCHANGED <<mn_now, mn_trade_days, mn_pending, mn_reports,
                   g_decision_report_sent_date, g_trade_days_cache, mnRest>>

\* monitor_job: is_time_to_send_report() is False
MnNotYet ==
    /\ mn_pc = "check" /\ mn_now.day # g_decision_report_sent_date
    /\ \/ /\ ~is_time(mn_now)
          /\ UNCHANGED g_trade_days_cache
       \/ /\ is_time(mn_now)
          /\ \E fetched \in {None, Some(mn_trade_days)} :
               LET r == is_today_trade_day(mn_now.day, g_trade_days_cache, fetched)
               IN  ~r.value /\ g_trade_days_cache' = r.cache
    /\ mn_pc' = "sleep"
    /\ UNCHANGED <<mn_now, mn_trade_days, mn_pending, mn_reports,
                   g_decision_report_sent_date, mnRest>>

\* monitor_job: is_time_to_send_report() is True, send_decision_report runs
MnReport ==
    /\ mn_pc = "check" /\ mn_now.day # g_decision_report_sent_date
    /\ is_time(mn_now)
    /\ \E fetched \in {None, Some(mn_trade_days)}, outcome \in ReportOutcomes :
         LET r == is_today_trade_day(mn_now.day, g_trade_days_cache, fetched)
         IN  /\ r.value
             /\ g_trade_days_cache' = r.cache
             /\ mn_reports' = Append(mn_reports,
                    [day |-> mn_now.day, slot |-> mn_now.slot, by |-> r.by,
                     outcome |-> outcome])
             /\ g_decision_report_sent_date' =
                    report_sent_date(mn_now.day, outcome, g_decision_report_sent_date)
             /\ mn_pc' = IF outcome = "raised" THEN "crashed" ELSE "sleep"
    /\ UNCHANGED <<mn_now, mn_trade_days, mn_pending, mnRest>>

\* ------------------------------------------------- the performance metrics
\* app.py calculate_max_drawdown and fund_backtest.py calculate_metrics, on a
\* series whose values are rationals or NaN
PmValues == {NaN, R(0), R(90), R(95), R(100), R(120)}

SeqMin(s) == s[CHOOSE i \in 1..Len(s) : \A j \in 1..Len(s) : RLe(s[i], s[j])]
SeqMax(s) == s[CHOOSE i \in 1..Len(s) : \A j \in 1..Len(s) : RGe(s[i], s[j])]
NotNa(s) == SelectSeq(s, LAMBDA x : x # NaN)

\* mutant: the maximum of the whole series instead of the running maximum
cummax_Whole(series, d) ==
    IF series[d] = NaN THEN NaN ELSE SeqMax(NotNa(series))

\* Series.cummax() at row d: NaN on a NaN row, else the maximum so far
cummax(series, d) ==
    IF series[d] = NaN THEN NaN ELSE SeqMax(NotNa(SubSeq(series, 1, d)))

\* calculate_max_drawdown(series)
calculate_max_drawdown(series) ==
    IF series = <<>> \/ NotNa(series) = <<>> THEN R(0)
    ELSE LET drawdown == [d \in 1..Len(series) |->
                 IF series[d] = NaN THEN NaN
                 ELSE LET cumulative_max == cummax(series, d)
                          q == FloatDiv(RSub(series[d], cumulative_max), cumulative_max)
                      IN  IF q = Inf THEN NaN ELSE q]
             known == NotNa(drawdown)
         IN  IF known # <<>> THEN RMul(SeqMin(known), R(100)) ELSE R(0)

\* FundBacktester.calculate_metrics on the nav column; the values returned are
\* the exact ones, the power is left as its operands, the volatility as its sign
calculate_metrics(nav) ==
    LET n == Len(nav)
        \* prepare_data: pct_change, then dropna
        returns == [k \in 1..(IF n = 0 THEN 0 ELSE n - 1) |->
                       RSub(RDiv(nav[k + 1], nav[k]), R(1))]
        total_return_pct == RMul(RSub(RDiv(nav[n], nav[1]), R(1)), R(100))
        \* returns.std() is NaN below two returns, and positive exactly when
        \* the returns are not all equal
        volatility == IF Len(returns) < 2 THEN "nan"
                      ELSE IF \E i, j \in 1..Len(returns) : returns[i] # returns[j]
                           THEN "positive" ELSE "zero"
        wins == Len(SelectSeq(returns, LAMBDA x : RGt(x, R(0))))
    IN  IF n = 0 THEN [raised |-> "IndexError"]
        ELSE IF Len(returns) = 0 THEN [raised |-> "ZeroDivisionError"]
        ELSE [raised |-> "",
              total_return |-> total_return_pct,
              annual_return |-> [base |-> RAdd(R(1), RDiv(total_return_pct, R(100))),
                                 exponent |-> RDiv(R(252), R(Len(returns)))],
              volatility |-> volatility,
              sharpe_is_zero |-> ~(volatility = "positive"),
              win_rate |-> RMul(RDiv(R(wins), R(Len(returns))), R(100)),
              trading_days |-> Len(returns)]

PmIdle ==
    /\ pm_pc = "idle" /\ pm_series = <<>> /\ max_drawdown = None /\ metrics = None

PmInit ==
    /\ pm_pc = "rows" /\ pm_series = <<>> /\ max_drawdown = None /\ metrics = None

\* one more value of the series handed to the analyzer
PmRow ==
    /\ pm_pc = "rows" /\ Len(pm_series) < MaxValues
    /\ \E v \in PmValues : pm_series' = Append(pm_series, v)
    /\ UNCHANGED <<pm_pc, max_drawdown, metrics, pmRest>>

\* app.py: calculate_max_drawdown(series)
PmMaxDrawdown ==
    /\ pm_pc = "rows"
    /\ max_drawdown' = Some(calculate_max_drawdown(pm_series))
    /\ pm_pc' = "done"
    /\ UNCHANGED <<pm_series, metrics, pmRest>>

\* fund_backtest.py: FundBacktester(fund_data).calculate_metrics(), nav > 0
PmMetrics ==
    /\ pm_pc = "rows"
    /\ \A k \in 1..Len(pm_series) : pm_series[k] # NaN /\ RGt(pm_series[k], R(0))
    /\ metrics' = Some(calculate_metrics(pm_series))
    /\ pm_pc' = "done"
    /\ UNCHANGED <<pm_series, max_drawdown, pmRest>>

\* ---------------------------- strategy.py: one generator called on two series
SgConfigs ==
    {[strategy |-> "ma_crossover_strategy", short_window |-> 1, long_window |-> 2]}
    \cup {[strategy |-> "rsi_strategy", rsi_period |-> p,
           oversold_threshold |-> 30, overbought_threshold |-> 70] : p \in {1, 2}}
    \cup {[strategy |-> "bollinger_bands_strategy", window |-> 2, std_dev |-> k] :
             k \in {<<1, 2>>, R(1)}}
    \cup {[strategy |-> "macd_strategy", fast_period |-> 1, slow_period |-> 2,
           signal_period |-> 2]}
    \cup {[strategy |-> "dca_strategy", interval_days |-> iv, amount |-> am] :
             iv \in Intervals, am \in TradeAmounts}
    \cup {[strategy |-> "threshold_strategy", lookback_period |-> lb,
           buy_threshold |-> -50, sell_threshold |-> 50] : lb \in Lookbacks}

\* strategy_func(fund_history, **strategy_params): the signal of row i
SgSignalAt(c, cl, i) ==
    CASE c.strategy = "ma_crossover_strategy" ->
           ma_crossover_strategy(cl, i, c.short_window, c.long_window)
      [] c.strategy = "rsi_strategy" ->
           rsi_strategy(cl, i, c.rsi_period, c.oversold_threshold, c.overbought_threshold)
      [] c.strategy = "bollinger_bands_strategy" ->
           bollinger_bands_strategy(cl, i, c.window, c.std_dev)
      [] c.strategy = "macd_strategy" ->
           macd_strategy(cl, i, c.fast_period, c.slow_period, c.signal_period)
      [] c.strategy = "dca_strategy" -> dca_strategy(i, c.interval_days, c.amount)
      [] c.strategy = "threshold_strategy" ->
           threshold_strategy(cl, i, c.lookback_period, c.buy_threshold, c.sell_threshold)

SgColumn(c, cl) == [i \in 1..Len(cl) |-> SgSignalAt(c, cl, i)]

\* the components that are not part of a run
EngIdle ==
    /\ engine = "none" /\ cfg = None /\ pc = "done" /\ close = <<>>
    /\ signal = <<>> /\ portfolio = <<>> /\ trade_log_list = <<>> /\ performance = None
    /\ thr_cash = R(0) /\ thr_shares = R(0) /\ total_thr_invested = R(0)
    /\ thr_portfolio_value_list = <<>> /\ thr_transactions = <<>> /\ results = None
    /\ data = <<>> /\ shares = R(0) /\ cash = R(0)

SgIdle ==
    /\ sg_cfg = None /\ sg_pc = "idle" /\ sg_close = <<>> /\ sg_close2 = <<>>
    /\ sg_signal = <<>> /\ sg_signal2 = <<>>

SgInit ==
    /\ sg_cfg \in SgConfigs
    /\ sg_pc = "rows"
    /\ sg_close = <<>> /\ sg_close2 = <<>>
    /\ sg_signal = <<>> /\ sg_signal2 = <<>>

\* a date on which the two series carry the same closing value
SgRowBoth ==
    /\ sg_pc = "rows" /\ Len(sg_close) < MaxSeries /\ sg_close2 = sg_close
    /\ \E price \in Prices :
         /\ sg_close' = Append(sg_close, price)
         /\ sg_close2' = Append(sg_close2, price)
    /\ UNCHANGED <<sg_cfg, sg_pc, sg_signal, sg_signal2, sgRest>>

\* a later row of the first series
SgRowFirst ==
    /\ sg_pc = "rows" /\ Len(sg_close) < MaxSeries
    /\ \E price \in Prices : sg_close' = Append(sg_close, price)
    /\ UNCHANGED <<sg_cfg, sg_pc, sg_close2, sg_signal, sg_signal2, sgRest>>

\* a later row of the second series
SgRowSecond ==
    /\ sg_pc = "rows" /\ Len(sg_close2) < MaxSeries
    /\ \E price \in Prices : sg_close2' = Append(sg_close2, price)
    /\ UNCHANGED <<sg_cfg, sg_pc, sg_close, sg_signal, sg_signal2, sgRest>>

\* the generator is called on each series
SgGenerate ==
    /\ sg_pc = "rows"
    /\ sg_signal' = SgColumn(sg_cfg, sg_close)
    /\ sg_signal2' = SgColumn(sg_cfg, sg_close2)
    /\ sg_pc' = "done"
    /\ UNCHANGED <<sg_cfg, sg_close, sg_close2, sgRest>>

LateIdle == AdvIdle /\ NtIdle /\ MnIdle

AuxIdle == SgIdle /\ DtIdle /\ AlIdle /\ PmIdle /\ LateIdle

\* --------------------------------------------------------- specification
Init ==
    /\ engine \in {"backtester", "app", "fund_backtest"}
    /\ cfg \in CASE engine = "backtester" -> {c \in BtConfigs : BtCanonical(c)}
              [] engine = "app" -> AppConfigs
              [] engine = "fund_backtest" -> FbConfigs
    /\ pc = "loop"
    /\ close = <<>>
    /\ signal = <<>>
    /\ portfolio = <<>>
    /\ trade_log_list = <<>>
    /\ performance = None
    /\ thr_cash = R(0)
    /\ thr_shares = R(0)
    /\ total_thr_invested = R(0)
    /\ thr_portfolio_value_list = <<>>
    /\ thr_transactions = <<>>
    /\ results = None
    /\ data = <<>>
    /\ shares = R(0)
    /\ cash = IF engine = "fund_backtest" THEN R(cfg.initial_amount) ELSE R(0)
    /\ AuxIdle

Next ==
    \/ BtStep
    \/ BtFinish
    \/ AppStep
    \/ AppFinish
    \/ FbStep
    \/ FbFinish

Spec == Init /\ [][Next]_vars

\* the signal generators, each called on two series
SignalInit == EngIdle /\ SgInit /\ DtIdle /\ AlIdle /\ PmIdle /\ LateIdle

SignalNext ==
    \/ SgRowBoth
    \/ SgRowFirst
    \/ SgRowSecond
    \/ SgGenerate

SignalSpec == SignalInit /\ [][SignalNext]_vars

\* the DCA date selection of app.py run_backtest
DateInit == EngIdle /\ SgIdle /\ DtInit /\ AlIdle /\ PmIdle /\ LateIdle

DateNext ==
    \/ DtMonthGroup
    \/ DtWeekGroup
    \/ DtReturn
    \/ DtInvest

DateSpec == DateInit /\ [][DateNext]_vars

\* the calendar aligners and their callers
AlignInit == EngIdle /\ SgIdle /\ DtIdle /\ AlInit /\ PmIdle /\ LateIdle

AlignNext ==
    \/ AlGetFundHistory
    \/ AlGetFundData
    \/ AlCallerBacktester
    \/ AlCallerApp

AlignSpec == AlignInit /\ [][AlignNext]_vars

\* the performance metrics, each applied to a value series
MetricInit == EngIdle /\ SgIdle /\ DtIdle /\ AlIdle /\ PmInit /\ LateIdle

MetricNext ==
    \/ PmRow
    \/ PmMaxDrawdown
    \/ PmMetrics

MetricSpec == MetricInit /\ [][MetricNext]_vars

\* the three ways a reference row is obtained, on one history
AdviceInit == EngIdle /\ SgIdle /\ DtIdle /\ AlIdle /\ PmIdle /\ AdvInit /\ NtIdle /\ MnIdle

AdviceNext ==
    \/ AdvGetReferenceNav
    \/ AdvAdviceView
    \/ AdvRunBacktest

AdviceSpec == AdviceInit /\ [][AdviceNext]_vars

\* any sequence of check_and_notify and reset_sent_notifications calls
NotifyInit == EngIdle /\ SgIdle /\ DtIdle /\ AlIdle /\ PmIdle /\ AdvIdle /\ NtInit /\ MnIdle

NotifyNext ==
    \/ NtCheckAndNotify
    \/ reset_sent_notifications

NotifySpec == NotifyInit /\ [][NotifyNext]_vars

\* the monitor process: monitor_job invoked by the scheduler as time passes
MonitorInit == EngIdle /\ SgIdle /\ DtIdle /\ AlIdle /\ PmIdle /\ AdvIdle /\ NtIdle /\ MnInit

MonitorNext ==
    \/ MnTick
    \/ MnStart
    \/ MnEnter
    \/ MnAlreadySent
    \/ MnNotYet
    \/ MnReport

MonitorSpec == MonitorInit /\ [][MonitorNext]_vars

\* ================================================================ claims
\* the row a date inherits in backtester.run_backtest
BtPrev(d) == IF d > 1 THEN portfolio[d - 1]
             ELSE [shares |-> R(0), cash |-> R(cfg.initial_capital)]

\* the trades a date recorded
BtTradesOn(d) == {k \in 1..Len(trade_log_list) : trade_log_list[k].date = d}
AppTradesOn(d) == {k \in 1..Len(thr_transactions) : thr_transactions[k].date = d}

\* what the threshold loop of app.run_backtest did on date d
AppDecision(d) ==
    IF AppTradesOn(d) = {} THEN "hold"
    ELSE thr_transactions[CHOOSE k \in AppTradesOn(d) : TRUE].type

NonNeg(x) == x[1] >= 0 /\ x[2] > 0

\* C1: in every simulation run (backtester.run_backtest in its three modes,
\* the threshold loop of app.run_backtest, _simulate_threshold_strategy),
\* cash >= 0 and shares >= 0 hold after every processed date.
C1_CashAndSharesNonNegative ==
    /\ \A d \in 1..Len(portfolio) : NonNeg(portfolio[d].cash) /\ NonNeg(portfolio[d].shares)
    /\ NonNeg(thr_cash) /\ NonNeg(thr_shares)
    /\ \A d \in 1..Len(data) : NonNeg(data[d].cash) /\ NonNeg(data[d].shares)
    /\ NonNeg(cash) /\ NonNeg(shares)

\* C1 witness: a fixed-amount run bought until the cash no longer covers the
\* trade amount, and the last date carried another buy signal
C1_Witness ==
    /\ engine = "backtester" /\ ~cfg.is_dca /\ Truthy(cfg.trade_amount)
    /\ Len(close) >= 3
    /\ Last(signal) = 1
    /\ RGt(Last(portfolio).cash, R(0))
    /\ RLt(Last(portfolio).cash, R(cfg.trade_amount[1]))
    /\ RGt(Last(portfolio).shares, R(0))

\* C2: on every date of a returned series the reported total value equals
\* cash + shares * price (backtester.run_backtest in all modes, the last date
\* of a DCA run after the final liquidation included, and the threshold value
\* series of app.run_backtest).
C2_TotalIsCashPlusShares ==
    /\ \A d \in 1..Len(portfolio) :
          portfolio[d].total =
              RAdd(portfolio[d].cash, RMul(portfolio[d].shares, R(close[d])))
    /\ thr_portfolio_value_list # <<>> =>
          Last(thr_portfolio_value_list) =
              RAdd(thr_cash, RMul(thr_shares, R(Last(close))))

\* C3: on every date d of a threshold backtest with a defined lookback return
\* the advisory classification of price[d] against the same reference value
\* and thresholds equals what the loop of app.run_backtest did on d.
C3_AdviceMatchesBacktest ==
    engine = "app" =>
        \A d \in 1..Len(close) :
            lookback_notna(d, cfg.lookback_period) =>
                /\ get_strategy_advice(R(close[d]), R(close[d - cfg.lookback_period]),
                                       cfg.buy_threshold, cfg.sell_threshold) = AppDecision(d)
                /\ advice_view(R(close[d]), R(close[d - cfg.lookback_period]),
                               cfg.buy_threshold, cfg.sell_threshold) = AppDecision(d)

\* ---- the threshold decision of one step, read off the two states of the step
\* the step processed one more row of a threshold run with a defined lookback return
ThresholdStep ==
    /\ pc = "loop" /\ pc' = "loop" /\ Len(close') = Len(close) + 1
    /\ engine = "backtester" => cfg.strategy = "threshold_strategy"
    /\ lookback_notna(Len(close'), cfg.lookback_period)

StepReturn == lookback_return(close', Len(close'), cfg.lookback_period)

SellMet(r) ==
    IF engine = "fund_backtest"
    THEN cfg.sell_threshold # None /\ RGe(r, R(cfg.sell_threshold[1]))
    ELSE RGe(r, R(cfg.sell_threshold))

BuyMet(r) ==
    IF engine = "fund_backtest"
    THEN cfg.buy_threshold # None /\ RLe(r, R(cfg.buy_threshold[1]))
    ELSE RLe(r, R(cfg.buy_threshold))

SharesBefore ==
    CASE engine = "backtester" -> BtPrev(Len(close) + 1).shares
      [] engine = "app" -> thr_shares
      [] OTHER -> shares

CashBefore ==
    CASE engine = "backtester" -> BtPrev(Len(close) + 1).cash
      [] engine = "app" -> thr_cash
      [] OTHER -> cash

SharesNow ==
    CASE engine = "backtester" -> Last(portfolio).shares
      [] engine = "app" -> thr_shares
      [] OTHER -> shares

CashNow ==
    CASE engine = "backtester" -> Last(portfolio).cash
      [] engine = "app" -> thr_cash
      [] OTHER -> cash

\* the trade kind the last processed date recorded
TradeNow ==
    CASE engine = "backtester" ->
            IF BtTradesOn(Len(close)) = {} THEN "hold" ELSE Last(trade_log_list).action
      [] engine = "app" -> AppDecision(Len(close))
      [] OTHER -> Last(data).action

\* "sell_all" when the sale left no shares, "sell_part" otherwise
DecisionNow ==
    IF TradeNow = "sell"
    THEN (IF SharesNow = R(0) THEN "sell_all" ELSE "sell_part")
    ELSE TradeNow

\* the decision rule of the claim
ClaimedDecision(r, held) ==
    IF SellMet(r) /\ RGt(held, R(0)) THEN "sell_all"
    ELSE IF BuyMet(r) THEN "buy"
    ELSE "hold"

\* the buy of a backtester run can be paid from the cash of the inherited row
BtCanPay(c) ==
    IF Truthy(cfg.trade_amount) THEN RGe(c, R(cfg.trade_amount[1])) ELSE RGt(c, R(0))

BtLoopStep ==
    engine = "backtester" /\ pc = "loop" /\ pc' = "loop" /\ Len(close') = Len(close) + 1

\* the row about to be processed carries a buy signal that cash c cannot fund
UnfundedBuy(sig, c) ==
    IF cfg.is_dca THEN sig > 0 /\ RLt(c, R(sig))
    ELSE IF Truthy(cfg.trade_amount) THEN sig = 1 /\ RLt(c, R(cfg.trade_amount[1]))
    ELSE sig = 1 /\ c = R(0)

RECURSIVE SumValue(_, _)
SumValue(log, type) ==
    IF log = <<>> THEN R(0)
    ELSE RAdd(SumValue(Tail(log), type),
              IF Head(log).type = type THEN Head(log).value ELSE R(0))

\* the step processed one more row of the app.run_backtest threshold loop
AppLoopStep ==
    engine = "app" /\ pc = "loop" /\ pc' = "loop" /\ Len(close') = Len(close) + 1

\* C6: in the threshold loop of app.run_backtest total_invested changes only
\* on a buy executed while cash < buy amount, then by exactly buy_amount - cash
\* while cash becomes 0; a buy with cash >= buy_amount only reduces cash; sells
\* and holds leave it unchanged; so it never decreases, and at every date
\* cash = total_invested + (sum of sale proceeds) - (sum of buy amounts).
C6_ExternalCapital ==
    /\ [](engine = "app" =>
            thr_cash = RSub(RAdd(total_thr_invested, SumValue(thr_transactions, "sell")),
                            SumValue(thr_transactions, "buy")))
    /\ [][AppLoopStep =>
            LET A == R(cfg.threshold_buy_amount)
                act == TradeNow'
            IN  /\ (act = "buy" /\ RLt(thr_cash, A)) =>
                      /\ total_thr_invested' = RAdd(total_thr_invested, RSub(A, thr_cash))
                      /\ thr_cash' = R(0)
                /\ (act = "buy" /\ RGe(thr_cash, A)) =>
                      /\ total_thr_invested' = total_thr_invested
                      /\ thr_cash' = RSub(thr_cash, A)
                /\ act # "buy" => total_thr_invested' = total_thr_invested
                /\ RGe(total_thr_invested', total_thr_invested)
       ]_vars

\* C6 witness: the last date bought with the proceeds of an earlier sale that
\* covered only a part of the amount, the rest being new external capital
C6_Witness ==
    /\ engine = "app" /\ Len(thr_transactions) >= 4
    /\ Last(thr_transactions).type = "buy"
    /\ Last(thr_transactions).date = Len(close)
    /\ thr_cash = R(0)
    /\ RGt(SumValue(thr_transactions, "sell"), R(0))
    /\ RLt(total_thr_invested, SumValue(thr_transactions, "buy"))
    /\ total_thr_invested # RMul(R(2), R(cfg.threshold_buy_amount))
    /\ total_thr_invested # R(cfg.threshold_buy_amount)

\* C7: a DCA run of backtester.run_backtest that holds shares on the last date
\* liquidates them all at the last close: final cash = cash before the
\* liquidation + shares * price * (1 - commission_rate), the last record shows
\* no remaining position, and the reported final value equals the final cash.
C7_FinalLiquidation ==
    [][(engine = "backtester" /\ pc = "loop" /\ pc' = "done" /\ cfg.is_dca
        /\ RGt(Last(portfolio).shares, R(0))) =>
          LET s == Last(portfolio).shares
              p == R(Last(close))
          IN  /\ Last(portfolio').cash =
                    RAdd(Last(portfolio).cash,
                         RMul(RMul(s, p), RSub(R(1), cfg.commission_rate)))
              /\ Last(portfolio').shares = R(0)
              /\ Last(portfolio').holdings = R(0)
              /\ performance'[1].final_portfolio_value = Last(portfolio').cash
    ]_vars

FullAllocation == engine = "backtester" /\ ~cfg.is_dca /\ ~Truthy(cfg.trade_amount)

\* C8: under the full-allocation policy of backtester.run_backtest every
\* executed buy spends the whole available cash (cash becomes 0) and every
\* executed sell liquidates the whole position (shares become 0).
C8_FullAllocationTradesEverything ==
    FullAllocation =>
        \A k \in 1..Len(trade_log_list) :
            LET e == trade_log_list[k]
            IN  /\ e.action = "buy" =>
                      portfolio[e.date].cash = R(0) /\ e.amount = BtPrev(e.date).cash
                /\ e.action = "sell" =>
                      portfolio[e.date].shares = R(0) /\ e.shares = BtPrev(e.date).shares

\* C8 witness: a full-allocation run with a commission bought, sold and bought again
C8_Witness ==
    /\ FullAllocation /\ cfg.commission_rate = <<1, 4>>
    /\ Len(trade_log_list) = 3
    /\ trade_log_list[1].action = "buy"
    /\ trade_log_list[2].action = "sell"
    /\ trade_log_list[3].action = "buy"

FixedAmount == engine = "backtester" /\ ~cfg.is_dca /\ Truthy(cfg.trade_amount)

\* the locals of _simulate_threshold_strategy before row d
FbPrev(d) == IF d > 1 THEN data[d - 1]
             ELSE [shares |-> R(0), cash |-> R(cfg.initial_amount)]

\* the buys of both fixed-amount implementations invest the configured amount
FixedAmountBuys ==
    /\ FixedAmount =>
          \A k \in 1..Len(trade_log_list) :
              LET e == trade_log_list[k]
              IN  e.action = "buy" =>
                      /\ e.amount = R(cfg.trade_amount[1])
                      /\ portfolio[e.date].cash = RSub(BtPrev(e.date).cash, e.amount)
    /\ engine = "fund_backtest" =>
          \A d \in 1..Len(data) :
              data[d].action = "buy" =>
                  RSub(FbPrev(d).cash, data[d].cash) =
                      RMin(FbPrev(d).cash, RDiv(RMul(R(cfg.initial_amount), R(20)), R(100)))

\* a sell signal of backtester.run_backtest on a day with shares liquidates them all
FixedAmountSellsAll ==
    FixedAmount =>
        \A d \in 1..Len(signal) :
            (signal[d] = -1 /\ RGt(BtPrev(d).shares, R(0))) =>
                /\ portfolio[d].shares = R(0)
                /\ BtTradesOn(d) # {}

BtTradedAmount ==
    IF cfg.is_dca THEN R(Last(signal'))
    ELSE IF Truthy(cfg.trade_amount) THEN R(cfg.trade_amount[1])
    ELSE CashBefore

\* commission on every trade of backtester.run_backtest, its final DCA
\* liquidation included: a buy of A at p takes A from the cash and adds
\* (A - A*c)/p shares, a sell of s shares at p adds s*p - s*p*c to the cash
BtCommissionDeducted ==
    LET c == cfg.commission_rate
    IN  /\ BtLoopStep =>
              LET p == R(Last(close'))
                  A == BtTradedAmount
                  s == SharesBefore
              IN  /\ TradeNow' = "buy" =>
                        /\ Last(portfolio').cash = RSub(CashBefore, A)
                        /\ Last(portfolio').shares =
                               RAdd(SharesBefore, RDiv(RSub(A, RMul(A, c)), p))
                  /\ TradeNow' = "sell" =>
                        Last(portfolio').cash =
                            RSub(RAdd(CashBefore, RMul(s, p)), RMul(RMul(s, p), c))
        /\ (engine = "backtester" /\ pc = "loop" /\ pc' = "done" /\ cfg.is_dca
            /\ RGt(Last(portfolio).shares, R(0))) =>
              LET p == R(Last(close))
                  s == Last(portfolio).shares
              IN  Last(portfolio').cash =
                      RSub(RAdd(Last(portfolio).cash, RMul(s, p)), RMul(RMul(s, p), c))

\* C10 (as stated): every executed trade of every execution path deducts the
\* commission from the traded cash amount: a buy of A at p reduces cash by A
\* and adds (A - A*c)/p shares, a sell of s shares at p adds s*p - s*p*c to
\* cash; app.run_backtest, which takes no commission rate, has c = 0.
C10_CommissionOnEveryPath ==
    [][/\ BtCommissionDeducted
       /\ AppLoopStep =>
             LET p == R(Last(close'))
                 A == R(cfg.threshold_buy_amount)
             IN  /\ TradeNow' = "buy" =>
                       /\ thr_cash' = RSub(thr_cash, A)
                       /\ thr_shares' = RAdd(thr_shares, RDiv(A, p))
                 /\ TradeNow' = "sell" =>
                       thr_cash' = RAdd(thr_cash, RMul(thr_shares, p))
    ]_vars

\* C10 (amended): the statement holds for every buy and sell of
\* backtester.run_backtest in all modes and for its final DCA liquidation; the
\* threshold loop of app.run_backtest takes no commission rate: a buy of A at
\* p adds A/p shares and reduces cash by min(cash, A), the shortfall being
\* external capital, and a sell of s shares at p adds s*p to cash.
C10_CommissionDeducted ==
    [][/\ BtCommissionDeducted
       /\ AppLoopStep =>
             LET p == R(Last(close'))
                 A == R(cfg.threshold_buy_amount)
             IN  /\ TradeNow' = "buy" =>
                       /\ thr_cash' = RSub(thr_cash, RMin(thr_cash, A))
                       /\ thr_shares' = RAdd(thr_shares, RDiv(A, p))
                 /\ TradeNow' = "sell" =>
                       thr_cash' = RAdd(thr_cash, RMul(thr_shares, p))
    ]_vars

\* C10 witness: a DCA run with a commission of 1/4 ended with the liquidation
\* of the shares it had bought
C10_Witness ==
    /\ engine = "backtester" /\ cfg.is_dca /\ pc = "done"
    /\ cfg.commission_rate = <<1, 4>>
    /\ Len(trade_log_list) >= 2
    /\ RGt(Last(portfolio).shares, R(0))
    /\ RGt(Last(portfolio).cash, R(cfg.initial_capital - 8))

\* the two series agree on all rows up to and including d
AgreeUpTo(d) ==
    /\ d <= Len(sg_close) /\ d <= Len(sg_close2)
    /\ \A k \in 1..d : sg_close[k] = sg_close2[k]

\* C11: no lookahead.  When a generator has been called on two series that
\* agree on every row up to and including d, the two signal columns are equal
\* on every row up to and including d, whatever the later rows contain.
C11_NoLookahead ==
    sg_pc = "done" =>
        \A d \in 1..MaxSeries :
            AgreeUpTo(d) => \A k \in 1..d : sg_signal[k] = sg_signal2[k]

\* a generator returned a trade on a row of the common part of two series
\* that differ afterwards, and the later rows of the two columns differ
C11_Witness ==
    /\ sg_pc = "done"
    /\ sg_cfg.strategy \in {"ma_crossover_strategy", "rsi_strategy",
                            "bollinger_bands_strategy", "macd_strategy"}
    /\ \E d \in 1..MaxSeries :
         /\ AgreeUpTo(d)
         /\ Len(sg_close) > d /\ Len(sg_close2) > d
         /\ sg_close[d + 1] # sg_close2[d + 1]
         /\ sg_signal[d] # 0
         /\ sg_signal[d + 1] # sg_signal2[d + 1]

\* the series dates of month m on or after the configured day, clamped to the month
OnOrAfterDay(m) ==
    LET target == IF dt_cfg.day < DaysInMonth[m] THEN dt_cfg.day ELSE DaysInMonth[m]
    IN  {n \in all_dates : MonthOf(n) = m /\ DayOf(n) >= target}

SelectedIn(m) == {n \in Range(dca_investment_dates) : MonthOf(n) = m}
MonthsSpanned == {MonthOf(n) : n \in all_dates}

\* C12: monthly DCA dates.  Every calendar month with a series date gets at
\* most one investment date, the earliest series date on or after day
\* min(day, days_in_month) of that month, and none when the month has no such
\* date; a series over 3 calendar months with day = 1 yields exactly 3
\* purchases, each on the first series date of its month.
C12_MonthlySelection ==
    (dt_pc = "done" /\ dt_cfg.freq = "monthly") =>
        /\ \A m \in MonthsSpanned :
             SelectedIn(m) = IF OnOrAfterDay(m) = {} THEN {}
                             ELSE {SetMin(OnOrAfterDay(m))}
        /\ Range(dca_investment_dates) \subseteq all_dates
        /\ (dt_cfg.day = 1 /\ Cardinality(MonthsSpanned) = 3) =>
             /\ Len(dca_investment_dates) = 3
             /\ dca_investments = {SetMin(MonthGroup(all_dates, m)) : m \in MonthsSpanned}
             /\ Cardinality(dca_investments) = 3
             /\ total_dca_invested = 3 * dt_cfg.dca_amount

\* a monthly run in which one month is skipped (its only dates on or after the
\* day lie in the next month) and another month invests after the target day
C12_Witness ==
    /\ dt_pc = "done" /\ dt_cfg.freq = "monthly"
    /\ \E m \in MonthsSpanned :
         /\ OnOrAfterDay(m) = {} /\ SelectedIn(m) = {}
         /\ \E n \in all_dates : MonthOf(n) = m + 1
    /\ \E m \in MonthsSpanned :
         \E n \in SelectedIn(m) : DayOf(n) > dt_cfg.day

\* the Monday that starts the Monday-to-Sunday week of a date
WeekStart(n) == n - Weekday(n)
OnOrAfterWeekday(w) ==
    {n \in all_dates : WeekStart(n) = w /\ Weekday(n) >= dt_cfg.day}
SelectedInWeek(w) == {n \in Range(dca_investment_dates) : WeekStart(n) = w}

\* C13: weekly DCA dates.  Every Monday-to-Sunday week with series dates gets
\* at most one investment date, the first series date of that week whose
\* weekday is on or after the configured weekday (the Monday itself for a
\* configured Monday that is a series date), and none when the week has no
\* such date.
C13_WeeklySelection ==
    (dt_pc = "done" /\ dt_cfg.freq = "weekly") =>
        \A w \in {WeekStart(n) : n \in all_dates} :
            SelectedInWeek(w) = IF OnOrAfterWeekday(w) = {} THEN {}
                                ELSE {SetMin(OnOrAfterWeekday(w))}

\* the observation that the row of date n must carry: the most recent one at
\* or before n, or the first one when n precedes all observations
Observed(n) ==
    LET before == {k \in DOMAIN fund_data_raw : k <= n}
    IN  IF before # {} THEN fund_data_raw[SetMax(before)]
        ELSE fund_data_raw[SetMin(DOMAIN fund_data_raw)]

\* the trading calendar an aligned series covers: the requested range for
\* get_fund_history, its part between the first and last observation for get_fund_data
AlignedCalendar ==
    IF al_impl = "data_manager" THEN get_trade_cal(start_date, end_date)
    ELSE {n \in get_trade_cal(SetMin(DOMAIN fund_data_raw), SetMax(DOMAIN fund_data_raw)) :
             n >= start_date /\ n <= end_date}

Aligned == al_pc # "call" /\ fund_data # NoFrame /\ DOMAIN fund_data.rows # {}

\* C14: every aligned series returned has one row per date of the trading
\* calendar, no missing value, and on each row the value of the most recent
\* real observation at or before the date, or of the first observation when
\* the date precedes them all.
C14_AlignedSeries ==
    Aligned =>
        /\ DOMAIN fund_data.rows = AlignedCalendar
        /\ \A n \in DOMAIN fund_data.rows :
             fund_data.rows[n] # NaN /\ fund_data.rows[n] = Observed(n)

\* C15: with zero observations, or with every observation outside
\* [start, end], the aligner returns its failure outcome, never a filled
\* series, and the caller runs no signal generation or backtest.
NoObservationInRange ==
    \A k \in DOMAIN fund_data_raw : k < start_date \/ k > end_date

C15_FailureOutcome ==
    (al_pc # "call" /\ NoObservationInRange) =>
        /\ fund_data = IF al_impl = "app" THEN NoFrame ELSE EmptyFrame
        /\ backtest_ran = FALSE

\* C16: the total return of a finished run is final_value/total_invested - 1
\* (app.py reports it in percent) when the invested capital is positive, and 0,
\* not NaN, when it is 0; for the threshold result of app.run_backtest and for
\* backtester.run_backtest, initial_capital = 0 included.
C16_TotalReturn ==
    /\ (engine = "app" /\ pc = "done") =>
         results[1].return_rate =
            IF RGt(total_thr_invested, R(0))
            THEN RMul(RSub(RDiv(results[1].final_value, total_thr_invested), R(1)), R(100))
            ELSE R(0)
    /\ (engine = "backtester" /\ pc = "done") =>
         performance[1].total_return =
            IF cfg.initial_capital > 0
            THEN RSub(RDiv(performance[1].final_portfolio_value,
                           R(cfg.initial_capital)), R(1))
            ELSE R(0)

\* the claimed drawdown of day d: (value[d] - max(value[0..d])) / max(value[0..d])
KnownDays == {d \in 1..Len(pm_series) : pm_series[d] # NaN}
RunningMax(d) ==
    LET k == CHOOSE k \in {j \in KnownDays : j <= d} :
                 \A j \in KnownDays : j <= d => RGe(pm_series[k], pm_series[j])
    IN  pm_series[k]
DrawdownDays == {d \in KnownDays : RGt(RunningMax(d), R(0))}
DayDrawdown(d) == RDiv(RSub(pm_series[d], RunningMax(d)), RunningMax(d))
PositiveSeries ==
    pm_series # <<>> /\ \A d \in 1..Len(pm_series) :
        pm_series[d] # NaN /\ RGt(pm_series[d], R(0))
NonDecreasing ==
    \A d \in 1..(Len(pm_series) - 1) : RLe(pm_series[d], pm_series[d + 1])

\* C17: calculate_max_drawdown is 100 times the least day drawdown; it is
\* <= 0 on a series of positive values and 0 exactly when that series is
\* non-decreasing, 0 on an empty or all-missing series, -25 on [100, 120, 90, 95].
C17_MaxDrawdown ==
    max_drawdown # None =>
        LET result == max_drawdown[1]
        IN  /\ result # NaN
            /\ \A d \in DrawdownDays : RLe(result, RMul(DayDrawdown(d), R(100)))
            /\ DrawdownDays # {} =>
                 \E d \in DrawdownDays : result = RMul(DayDrawdown(d), R(100))
            /\ DrawdownDays = {} => result = R(0)
            /\ PositiveSeries => (RLe(result, R(0)) /\ (result = R(0) <=> NonDecreasing))
            /\ pm_series = <<R(100), R(120), R(90), R(95)>> => result = R(-25)

\* the drawdown of [100, 120, 90, 95] has been computed
C17_Witness ==
    /\ pm_series = <<R(100), R(120), R(90), R(95)>>
    /\ max_drawdown = Some(R(-25))

\* C18: no metric raises on empty or too-short input: calculate_metrics on
\* zero or one price point and on zero volatility, and calculate_max_drawdown
\* on an empty series, return values.
C18_MetricsNeverRaise ==
    /\ metrics # None => metrics[1].raised = ""
    /\ (max_drawdown # None /\ pm_series = <<>>) => max_drawdown[1] = R(0)

\* the dates of the series whose lookback return is defined and <= buy_pct
BuyDates ==
    {d \in 1..Len(close) :
        /\ lookback_notna(d, cfg.lookback_period)
        /\ RLe(lookback_return(close, d, cfg.lookback_period), R(cfg.buy_threshold))}

\* the dates of the series whose lookback return is defined and >= sell_pct
SellDates ==
    {d \in 1..Len(close) :
        /\ lookback_notna(d, cfg.lookback_period)
        /\ RGe(lookback_return(close, d, cfg.lookback_period), R(cfg.sell_threshold))}

ThrRecorded(d, type) ==
    \E k \in 1..Len(thr_transactions) :
        thr_transactions[k].date = d /\ thr_transactions[k].type = type

\* the step records a sell on the date it processes
SellRecordedNow ==
    \E k \in 1..Len(thr_transactions') :
        thr_transactions'[k].date = Len(close') /\ thr_transactions'[k].type = "sell"

\* C19: in a threshold run of app.run_backtest a buy of the configured amount
\* is recorded on the first date whose lookback return is defined and
\* <= buy_pct; no sell is recorded while the lookback return has never reached
\* sell_pct; the first transaction is a buy; and a sell is never recorded on a
\* date that starts with zero shares.
C19_ThresholdRun ==
    /\ [](engine = "app" =>
            /\ BuyDates # {} =>
                 \E k \in 1..Len(thr_transactions) :
                     /\ thr_transactions[k].date = SetMin(BuyDates)
                     /\ thr_transactions[k].type = "buy"
                     /\ thr_transactions[k].value = R(cfg.threshold_buy_amount)
            /\ SellDates = {} => \A d \in 1..Len(close) : ~ThrRecorded(d, "sell")
            /\ thr_transactions # <<>> => thr_transactions[1].type = "buy")
    /\ [][(AppLoopStep /\ SellRecordedNow) => RGt(thr_shares, R(0))]_vars

\* a finished threshold run that bought on its first buy date, after a date
\* without defined return, and sold on a later date
C19_Witness ==
    /\ engine = "app" /\ pc = "done"
    /\ BuyDates # {} /\ SetMin(BuyDates) > cfg.lookback_period + 1
    /\ ThrRecorded(SetMin(BuyDates), "buy")
    /\ \E d \in SellDates : d > SetMin(BuyDates) /\ ThrRecorded(d, "sell")
    /\ \E d \in SellDates : d < SetMin(BuyDates)

\* the StrategyConfig of a threshold run is valid: buy_pct < 0 < sell_pct
\* and a positive lookback
ValidThresholds ==
    cfg.buy_threshold < 0 /\ 0 < cfg.sell_threshold /\ cfg.lookback_period > 0

\* C20: a threshold configuration that violates buy_pct < 0 < sell_pct or a
\* positive lookback is rejected before any date is simulated:
\* threshold_strategy produces no signal and the run no row and no trade.
C20_InvalidParameterRejected ==
    (engine = "backtester" /\ cfg.strategy = "threshold_strategy" /\ ~ValidThresholds) =>
        /\ signal = <<>>
        /\ portfolio = <<>>
        /\ trade_log_list = <<>>

Indicators == {"ma_crossover_strategy", "rsi_strategy", "bollinger_bands_strategy",
               "macd_strategy"}

\* signals['position'] of the generator called on cl
SgPosition(c, cl) ==
    CASE c.strategy = "ma_crossover_strategy" ->
           ma_crossover_position(cl, c.short_window, c.long_window)
      [] c.strategy = "rsi_strategy" ->
           rsi_position(cl, c.rsi_period, c.oversold_threshold, c.overbought_threshold)
      [] c.strategy = "bollinger_bands_strategy" ->
           bollinger_bands_position(cl, c.window, c.std_dev)
      [] c.strategy = "macd_strategy" ->
           macd_position(cl, c.fast_period, c.slow_period, c.signal_period)

NonZero(sig) == SelectSeq(sig, LAMBDA x : x # 0)

\* C21: for every indicator variant the signal of a date is the change of the
\* target position from the previous date (+1 on 0 to 1, -1 on 1 to 0, else
\* 0), the position starts at 0, and so the non-zero signals alternate
\* +1, -1, +1, ... beginning with +1; a position that lasts gives no second signal.
C21_SignalsAlternate ==
    (sg_pc = "done" /\ sg_cfg.strategy \in Indicators) =>
        LET pos == SgPosition(sg_cfg, sg_close)
            nz == NonZero(sg_signal)
        IN  /\ \A k \in 1..Len(sg_close) : pos[k] \in {0, 1}
            /\ Len(sg_close) >= 1 => pos[1] = 0 /\ sg_signal[1] = 0
            /\ \A k \in 2..Len(sg_close) :
                 sg_signal[k] = (IF pos[k] = pos[k - 1] THEN 0
                                 ELSE IF pos[k] = 1 THEN 1 ELSE -1)
            /\ \A j \in 1..Len(nz) : nz[j] = (IF j % 2 = 1 THEN 1 ELSE -1)

\* an indicator run that entered a position and kept it on the next date
C21_Witness ==
    /\ sg_pc = "done" /\ sg_cfg.strategy \in Indicators
    /\ NonZero(sg_signal) = <<1>>
    /\ \E k \in 2..Len(sg_close) :
         /\ SgPosition(sg_cfg, sg_close)[k] = 1
         /\ SgPosition(sg_cfg, sg_close)[k - 1] = 1
         /\ sg_signal[k] = 0

\* rows of warm-up of a strategy that reads the past: no row before them has
\* the history the strategy compares with
WarmUp ==
    CASE engine = "backtester" /\ cfg.strategy = "threshold_strategy" -> cfg.lookback_period
      [] engine = "backtester" /\ cfg.strategy = "ma_crossover_strategy" -> cfg.long_window
      [] engine = "app" -> cfg.lookback_period
      [] OTHER -> 0

TradedOn(d) ==
    \/ \E k \in 1..Len(trade_log_list) : trade_log_list[k].date = d
    \/ \E k \in 1..Len(thr_transactions) : thr_transactions[k].date = d

CountedBack(hist, today_dt, lookback_days) ==
    LET recorded == Sorted({n \in DOMAIN hist : n < today_dt})
    IN  IF Len(recorded) < lookback_days THEN None
        ELSE ReferenceRow(hist, recorded[Len(recorded) - lookback_days + 1])

\* C23: the reference of the advisory evaluator is the record exactly
\* lookback_period recorded trading days before today, and both
\* get_reference_nav and the advice view of app.py return the reference value
\* and date that the backtest has on today's row after shifting the aligned
\* series by lookback_period rows.
C23_ReferenceByTradingDays ==
    adv_pc = "done" =>
        LET counted == CountedBack(adv_hist_data_raw, adv_today, adv_lookback_period)
        IN  /\ adv_core_reference = counted
            /\ adv_app_reference = counted
            /\ adv_core_reference = adv_shift_reference
            /\ adv_app_reference = adv_shift_reference

SentCount(fund_code, type, epoch) ==
    Cardinality({k \in 1..Len(nt_outbox) :
                    /\ nt_outbox[k].fund_code = fund_code
                    /\ nt_outbox[k].type = type
                    /\ nt_outbox[k].epoch = epoch})

BetweenThresholds(gszzl) ==
    gszzl > fund_config.buy_threshold /\ gszzl < fund_config.sell_threshold

\* C25: between two calls of reset_sent_notifications a fund gets at most one
\* buy notification and at most one sell notification, whatever the sequence
\* of estimated changes, and a call whose value lies strictly between the
\* thresholds sends nothing and leaves the tracker unchanged.
C25_NoDuplicateAlert ==
    /\ [](\A f \in FundCodes, e \in 0..MaxResets :
            SentCount(f, "buy", e) <= 1 /\ SentCount(f, "sell", e) <= 1)
    /\ [][\A f \in FundCodes, g \in EstimatedChanges :
            (check_and_notify(f, g) /\ BetweenThresholds(g)) =>
                UNCHANGED <<g_sent_notifications, nt_outbox>>]_vars

ReportsOn(n) == {k \in 1..Len(mn_reports) : mn_reports[k].day = n}

\* the day counts as a trade day: it is in the trade calendar, or the calendar
\* could not be fetched and it is a weekday
CountsAsTradeDay(rep) ==
    IF rep.by = "calendar" THEN rep.day \in mn_trade_days ELSE Weekday(rep.day) < 5

LastObserved(n) == SetMax({k \in DOMAIN fund_data_raw : k <= n})

\* reference dates that the threshold loop of run_backtest records in a buy on
\* the series fund_data: the row of date index[i] is bought when its
\* lookback_return is at or below the buy threshold
BuyReferenceDates ==
    LET rows == fund_data.rows
        index == Sorted(DOMAIN rows)
    IN  { last_trading_date(rows, index[i - c.lookback_period]) :
            <<i, c>> \in { x \in (1..Len(index)) \X AppConfigs :
                /\ lookback_notna(x[1], x[2].lookback_period)
                /\ RLe(RMul(RSub(RDiv(rows[index[x[1]]],
                                      rows[index[x[1] - x[2].lookback_period]]), R(1)), R(100)),
                       R(x[2].buy_threshold)) } }

\* C24: in the series built by app.get_fund_data, last_trading_date of
\* every row is the most recent date at or before the row with a real
\* observation, and the reference_date of a threshold transaction is a date
\* with a real observation.
C24_LastTradingDate ==
    (al_impl = "app" /\ Aligned) =>
        /\ \A n \in DOMAIN fund_data.rows :
              last_trading_date(fund_data.rows, n) = LastObserved(n)
        /\ BuyReferenceDates \subseteq DOMAIN fund_data_raw

InvestmentRows == {i \in 1..Len(sg_signal) : sg_signal[i] # 0}

\* C27: dca_strategy with interval_days = k >= 1 puts the amount exactly on
\* the row indices 0, k, 2k, ... (rows 1, k + 1, 2k + 1, ... counted from 1)
\* and 0 on every other row: the first row is an investment row and
\* consecutive investment rows are exactly k rows apart.
C27_DcaEveryKthRow ==
    (sg_pc = "done" /\ sg_cfg.strategy = "dca_strategy") =>
        LET k == sg_cfg.interval_days
        IN  /\ \A i \in 1..Len(sg_signal) :
                  sg_signal[i] = IF (i - 1) % k = 0 THEN sg_cfg.amount ELSE 0
            /\ Len(sg_signal) >= 1 => 1 \in InvestmentRows
            /\ \A i \in InvestmentRows :
                  i + k <= Len(sg_signal) =>
                      /\ i + k \in InvestmentRows
                      /\ \A j \in (i + 1)..(i + k - 1) : j \notin InvestmentRows

\* a series on which an interval of 3 rows gives a second investment
C27_Witness ==
    /\ sg_pc = "done" /\ sg_cfg.strategy = "dca_strategy" /\ sg_cfg.interval_days = 3
    /\ Len(sg_signal) = 4 /\ InvestmentRows = {1, 4}

ValidFullAllocation ==
    /\ FullAllocation /\ cfg.initial_capital > 0
    /\ RGe(cfg.commission_rate, R(0)) /\ RLt(cfg.commission_rate, R(1))

\* C29: in the full-allocation mode of backtester.run_backtest, with
\* initial_capital > 0 and a commission rate in [0, 1), after every date
\* cash = 0 or shares = 0; so the buy branch, which overwrites the shares,
\* is never taken while a position is held.
C29_CashOrSharesZero ==
    /\ [](ValidFullAllocation =>
            \A n \in 1..Len(portfolio) :
                portfolio[n].cash = R(0) \/ portfolio[n].shares = R(0))
    /\ [][(ValidFullAllocation /\ BtLoopStep
           /\ Len(trade_log_list') = Len(trade_log_list) + 1
           /\ Last(trade_log_list').action = "buy") =>
              /\ SharesBefore = R(0)
              /\ Last(portfolio').shares = Last(trade_log_list').shares
          ]_vars

\* a run without commission that bought, held, sold and bought again
C29_Witness ==
    /\ ValidFullAllocation /\ cfg.commission_rate = R(0)
    /\ Len(close) = 4 /\ Len(trade_log_list) = 3
    /\ BtTradesOn(2) = {}
    /\ trade_log_list[3].action = "buy"
    /\ portfolio[4].cash = R(0) /\ portfolio[4].shares # R(0)

\* the log entry e accounts for the change of cash and shares on its date
BtEntryMatches(e) ==
    LET n == e.date
    IN  /\ e.price = close[n]
        /\ e.action = "sell" =>
              /\ portfolio[n].cash = RAdd(BtPrev(n).cash, e.amount)
              /\ portfolio[n].shares = RSub(BtPrev(n).shares, e.shares)
        /\ e.action = "buy" =>
              /\ portfolio[n].cash = RSub(BtPrev(n).cash, e.amount)
              /\ portfolio[n].shares = RAdd(BtPrev(n).shares, e.shares)

DatesIncrease(log) == \A k \in 1..(Len(log) - 1) : log[k].date < log[k + 1].date

Extends(new, old) == Len(new) >= Len(old) /\ SubSeq(new, 1, Len(old)) = old

\* the entry e accounts for the step of the threshold loop of app.run_backtest
AppEntryMatchesStep(e) ==
    /\ e.date = Len(close') /\ e.price = Last(close')
    /\ e.type = "sell" =>
          /\ thr_cash' = RAdd(thr_cash, e.value)
          /\ thr_shares' = RSub(thr_shares, e.shares)
    /\ e.type = "buy" =>
          /\ thr_shares' = RAdd(thr_shares, e.shares)
          /\ RAdd(RSub(thr_cash, thr_cash'), RSub(total_thr_invested', total_thr_invested))
                = e.value

\* C30: the transaction log mirrors the state changes of a run of
\* backtester.run_backtest (all modes, the final liquidation of a DCA run
\* included) and of the threshold loop of app.run_backtest: at most one entry
\* per date, entries in strictly increasing date order and never removed or
\* altered, every entry recording the price, shares and amount of the change
\* of its date, and exactly one entry for every date on which cash or shares
\* differ from the previous date.
C30_LogMirrorsState ==
    /\ [](/\ DatesIncrease(trade_log_list) /\ DatesIncrease(thr_transactions)
          /\ engine = "backtester" =>
                /\ \A k \in 1..Len(trade_log_list) : BtEntryMatches(trade_log_list[k])
                /\ \A n \in 1..Len(portfolio) :
                      (portfolio[n].cash # BtPrev(n).cash
                       \/ portfolio[n].shares # BtPrev(n).shares)
                          => Cardinality(BtTradesOn(n)) = 1)
    /\ [][/\ Extends(trade_log_list', trade_log_list)
           /\ Extends(thr_transactions', thr_transactions)
           /\ AppLoopStep =>
                IF thr_cash' # thr_cash \/ thr_shares' # thr_shares
                THEN /\ Len(thr_transactions') = Len(thr_transactions) + 1
                     /\ AppEntryMatchesStep(Last(thr_transactions'))
                ELSE thr_transactions' = thr_transactions
          ]_vars
====
